---- MODULE Spec2Model ----
(***************************************************************************)
(* A model of pipelinewise-target-snowflake's flush engine:                *)
(*   - persist_lines, flush_streams, load_stream_batch, emit_state         *)
(*     (target_snowflake/__init__.py)                                      *)
(*   - flush_stream_buckets, load_records                                  *)
(*     (target_snowflake/handlers/record.py)                               *)
(*                                                                         *)
(* Python values are modelled as follows.                                  *)
(*   dict           a function; `k in d` is k \in DOMAIN d                 *)
(*   None / object  an option: << >> is None, << o >> is a reference to o  *)
(*   checkpoint     an object [id, bid, d]: d is the dict's value, id the  *)
(*                  identity of the dict object, bid the identity of its   *)
(*                  'bookmarks' sub-dict (0 when it has none), so that     *)
(*                  copy.deepcopy and plain assignment differ              *)
(*   record         its 'id', its number among the stream's RECORD lines   *)
(*                  and the number of STATE lines received before it       *)
(*   bookmark       the number of the STATE line that carries it           *)
(*   schema         its number among the stream's distinct schemas, its    *)
(*                  key_properties and the JSON type of its one column     *)
(***************************************************************************)
EXTENDS Integers, Sequences, FiniteSets, TLC

\* ------------------------------------------------------------------ bounds
MaxLines == 6

Streams == {"s1", "s2"}
\* the RECORD lines of the input: <<stream, id>>
RecordInputs == {<<"s1", "a">>, <<"s2", "a">>, <<"s2", "b">>}
\* the configurations: <<batch_size_rows, flush_all_streams>>
Configs == {<<2, FALSE>>, <<2, TRUE>>, <<100, FALSE>>}
StateKinds == {"empty", "cs", "bm1", "bm12"}

VARIABLES
    pc,               \* "read" | "done" | "aborted" : persist_lines' position
                      \* "h_ready" | "h_done" | "h_failed" : a direct call of flush_stream_buckets
    config,           \* the config dict (the keys the flush engine reads)
    lines,            \* the number of lines consumed so far
    n_state,          \* the number of STATE lines among them
    n_record,         \* the number of RECORD lines among them, per stream and id
    schemas,          \* persist_lines: schemas (stream -> its latest SCHEMA message)
    stream_to_sync,   \* persist_lines: stream_to_sync (stream -> DbSync)
    records_to_load,  \* persist_lines: records_to_load (stream -> primary_key_string -> record)
    row_count,        \* persist_lines: row_count
    total_row_count,  \* persist_lines: total_row_count
    state,            \* persist_lines: state (latest-seen checkpoint)
    flushed_state,    \* persist_lines: flushed_state (flushed checkpoint)
    emitted,          \* the lines emit_state has written to stdout
    loads,            \* the bulk loads the warehouse has executed (load_csv calls)
    tables,           \* the warehouse's tables: stream -> the DDL statements run on its table
    rounds,           \* the flush rounds run so far (calls of flush_streams)
    pool,             \* the Parallel() call in progress and its worker threads, or None
    call,             \* a call of a function on its own: its arguments and its result
    table_cache,      \* persist_lines: table_cache (stream -> the columns read by load_table_cache)
    last              \* what the last step did, and the values it started from

vars == <<pc, config, lines, n_state, n_record, schemas, stream_to_sync, records_to_load, row_count,
          total_row_count, state, flushed_state, emitted, loads, tables, rounds, pool, call,
          table_cache, last>>

\* ------------------------------------------------------------------ Python values
None == << >>
Some(o) == << o >>
EmptyDict == << >>

\* `not x` for x a dict or None
Falsy(x) == x = None \/ DOMAIN x[1].d = {}

\* d.get('bookmarks', {})
Bookmarks(d) == IF "bookmarks" \in DOMAIN d THEN d["bookmarks"] ELSE EmptyDict

\* the value of an option: None, or the dict's value (what json.dumps writes)
Value(x) == IF x = None THEN None ELSE Some(x[1].d)

\* d['bookmarks'][stream] = v, creating 'bookmarks' when asked to
SetBookmark(d, stream, v) ==
    LET bm == Bookmarks(d)
        nb == [x \in DOMAIN bm \cup {stream} |-> IF x = stream THEN v ELSE bm[x]]
    IN  [k \in DOMAIN d \cup {"bookmarks"} |-> IF k = "bookmarks" THEN nb ELSE d[k]]

OtherId(i) == IF i = 0 THEN 0 ELSE 3 - i

\* the object json.loads builds for o['value']: a new dict, distinct from
\* every live one (the only other live checkpoint is `other`)
NewObject(d, other) ==
    Some([id  |-> IF other = None THEN 1 ELSE OtherId(other[1].id),
          bid |-> IF "bookmarks" \notin DOMAIN d THEN 0
                  ELSE IF other = None \/ other[1].bid = 0 THEN 1
                  ELSE OtherId(other[1].bid),
          d   |-> d])

AliasCopy(x) == x

\* copy.deepcopy(x): equal value, new objects at every level
DeepCopy(x) ==
    IF x = None THEN None
    ELSE Some([id |-> OtherId(x[1].id), bid |-> OtherId(x[1].bid), d |-> x[1].d])

\* two references share no object
Independent(x, y) ==
    x = None \/ y = None
    \/ (x[1].id # y[1].id /\ (x[1].bid = 0 \/ x[1].bid # y[1].bid))

\* the value of the n-th STATE message
StateValue(kind, n) ==
    LET keys == CASE kind = "empty" -> {}
                  [] kind = "cs"    -> {"currently_syncing"}
                  [] OTHER          -> {"bookmarks", "currently_syncing"}
        bmdom == IF kind = "bm1" THEN {"s1"} ELSE Streams
    IN  [k \in keys |-> IF k = "bookmarks" THEN [s \in bmdom |-> n] ELSE n]

\* ------------------------------------------------------------------ DbSync
\* DbSync(config, o): the synchronizer built from a SCHEMA message, the stream's
\* n-th schema with the given key_properties and column type
DbSyncOf(n, key_props, type) == [schema |-> n, key_properties |-> key_props, type |-> type]

\* a schema whose column is a plain string
DbSync(n, key_props) == DbSyncOf(n, key_props, "string")

\* column_type: the Snowflake type of a schema property
column_type(type) ==
    CASE type = "date-time" -> "timestamp_ntz"
      [] type = "integer"   -> "number"
      [] OTHER              -> "text"

\* the type the table's column has now: that of the last CREATE or ADD COLUMN
DataType(table) ==
    LET made == {i \in DOMAIN table : table[i].op \in {"create", "add"}}
    IN  table[CHOOSE i \in made : \A j \in made : j <= i].type

\* update_columns: the column whose type differs from the table's
\* (columns_to_replace), unless TIMESTAMP_NTZ is the new type
columns_to_replace(table, db_sync) ==
    /\ DataType(table) # column_type(db_sync.type)
    /\ column_type(db_sync.type) # "timestamp_ntz"

\* update_columns: version_column, then add_column, for the column to replace
update_columns(table, db_sync) ==
    IF columns_to_replace(table, db_sync)
    THEN table \o << [op |-> "version", type |-> DataType(table)],
                     [op |-> "add", type |-> column_type(db_sync.type)] >>
    ELSE table

\* sync_table: create the table if it does not exist, else update its columns
sync_table(table, db_sync) ==
    IF table = << >>
    THEN << [op |-> "create", type |-> column_type(db_sync.type)] >>
    ELSE update_columns(table, db_sync)

\* `if self.table_cache:` the cache is used when it is a non-empty list of rows
CacheInUse(cache) == \E s \in DOMAIN cache : cache[s] # << >>

\* the rows of d for table s
RowsOf(d, s) == IF s \in DOMAIN d THEN d[s] ELSE << >>

\* sync_table, update_columns: the columns of the stream's table as the DbSync
\* reads them, from the table_cache it was built with or, without one, from
\* the warehouse (get_tables, get_table_columns)
found_tables(cache, warehouse, s) ==
    IF CacheInUse(cache) THEN RowsOf(cache, s) ELSE RowsOf(warehouse, s)

\* the warehouse runs CREATE TABLE IF NOT EXISTS on a table that exists or not
create_table(table, db_sync) ==
    IF table = << >>
    THEN << [op |-> "create", type |-> column_type(db_sync.type)] >>
    ELSE table

\* the warehouse runs version_column and add_column on the table's column
replace_column(table, db_sync) ==
    table \o << [op |-> "version", type |-> DataType(table)],
                [op |-> "add", type |-> column_type(db_sync.type)] >>

\* sync_table of a DbSync that reads `columns` for a table that is `table` in
\* the warehouse: create the table if no column is found, else update_columns
sync_table_with(columns, table, db_sync) ==
    IF columns = << >>
    THEN create_table(table, db_sync)
    ELSE IF columns_to_replace(columns, db_sync)
         THEN replace_column(table, db_sync)
         ELSE table

\* a RECORD message's record: its 'id' field, its number n among the stream's
\* RECORD lines, and the number of STATE lines received before it
RecordOf(id, n, after) == [id |-> id, n |-> n, after |-> after]

\* the 'id' of a record that has no such field, or null in it
AbsentId == "<absent>"
NullId == "<null>"

\* the result of a call that raised PrimaryKeyNotFoundException
PrimaryKeyNotFound == "<PrimaryKeyNotFoundException>"

record_primary_key_unchecked(db_sync, record) ==
    IF Len(db_sync.key_properties) = 0 THEN "" ELSE record.id

\* DbSync.record_primary_key_string: None ("") without key properties, else
\* the key properties' values joined (one key property, 'id', here); raises if
\* the record lacks the key property or holds null for it
record_primary_key_string(db_sync, record) ==
    IF Len(db_sync.key_properties) = 0 THEN ""
    ELSE IF record.id \in {AbsentId, NullId} THEN PrimaryKeyNotFound
    ELSE record.id

RIDZero(n) == "RID-0"

\* 'RID-{}'.format(n)
RID(n) == "RID-" \o ToString(n)

Range(f) == {f[x] : x \in DOMAIN f}

\* ------------------------------------------------------------------ flush round
Outcome == {"done", "failed", "failed_after_load", "not_run"}
Failing == {"failed", "failed_after_load"}

\* the workers of a round that have something to load
Active(streams_to_flush, rc) == {s \in streams_to_flush : rc[s] > 0}

\* what the workers of one Parallel() call can do: each runs to its end, or
\* raises before or after its bulk load; once one has raised, others may not run
WorkerOutcomes(active) ==
    {o \in [active -> Outcome] :
        (\E s \in DOMAIN o : o[s] = "not_run") => (\E s \in DOMAIN o : o[s] \in Failing)}

LoadGuardAlways(rc, stream) == TRUE

WorkerRowCountKeep(rc, streams_to_flush, out) == rc

\* load_stream_batch: `if row_count[stream] > 0`
LoadGuard(rc, stream) == rc[stream] > 0

\* load_stream_batch, for every worker of the round: the loads that reached
\* the warehouse (flush_records -> db_sync.load_csv)
WorkerLoads(streams, rc, sts, streams_to_flush, out, round) ==
    {[stream |-> s, rows |-> Range(streams[s]), schema |-> sts[s].schema, round |-> round] :
        s \in {x \in streams_to_flush :
                 LoadGuard(rc, x) /\ (x \in DOMAIN out => out[x] \in {"done", "failed_after_load"})}}

\* load_stream_batch: `row_count[stream] = 0`, reached by a worker that ran to its end
WorkerRowCount(rc, streams_to_flush, out) ==
    [s \in DOMAIN rc |->
        IF s \in streams_to_flush /\ rc[s] > 0 /\ out[s] = "done" THEN 0 ELSE rc[s]]

SetOf(seq) == {seq[i] : i \in DOMAIN seq}

RaisedNever(out) == FALSE

\* Parallel()(...): an exception of a worker is raised again by the call
Raised(out) == \E s \in DOMAIN out : out[s] \in Failing

\* flush_streams, filtered branch, one stream: copy the stream's bookmark from
\* the latest state if it has one
CopyBookmark(fst, st, stream) ==
    IF st # None /\ stream \in DOMAIN Bookmarks(st[1].d)
    THEN Some([id  |-> fst[1].id,
               bid |-> IF fst[1].bid = 0 THEN OtherId(st[1].bid) ELSE fst[1].bid,
               d   |-> SetBookmark(fst[1].d, stream, st[1].d["bookmarks"][stream])])
    ELSE fst

RECURSIVE CopyBookmarks(_, _, _)
CopyBookmarks(fst, st, filter_streams) ==
    IF filter_streams = << >> THEN fst
    ELSE CopyBookmarks(CopyBookmark(fst, st, Head(filter_streams)), st, Tail(filter_streams))

\* `'bookmarks' not in flushed_state` raises TypeError when flushed_state is None
BookmarkTypeError(fst, st, filter_streams) ==
    /\ fst = None
    /\ st # None
    /\ \E s \in SetOf(filter_streams) : s \in DOMAIN Bookmarks(st[1].d)

ClearNothing(streams, streams_to_flush) == streams

\* flush_streams: `streams[stream] = {}` for every flushed stream
ClearBuckets(streams, streams_to_flush) ==
    [s \in DOMAIN streams |-> IF s \in streams_to_flush THEN EmptyDict ELSE streams[s]]

FlushedUnfilteredKeep(fst, st, streams_to_flush) == fst

\* flush_streams, unfiltered branch: `flushed_state = copy.deepcopy(state)`, in
\* the loop over the flushed streams
FlushedUnfiltered(fst, st, streams_to_flush) ==
    IF streams_to_flush = {} THEN fst ELSE DeepCopy(st)

FlushedFilteredAsUnfiltered(fst, st, filter_streams) == DeepCopy(st)

\* flush_streams, filtered branch
FlushedFiltered(fst, st, filter_streams) == CopyBookmarks(fst, st, filter_streams)

\* flush_streams(streams, row_count, stream_to_sync, config, state, flushed_state,
\* filter_streams): filter_streams is << >> for None. `out` is what the workers did.
flush_streams(streams, rc, sts, st, fst, filter_streams, out, round) ==
    LET streams_to_flush == IF filter_streams # << >> THEN SetOf(filter_streams)
                            ELSE DOMAIN streams
        raised == \/ Raised(out)
                  \/ (filter_streams # << >> /\ BookmarkTypeError(fst, st, filter_streams))
    IN  [ok               |-> ~raised,
         out              |-> out,
         streams_to_flush |-> streams_to_flush,
         loads            |-> WorkerLoads(streams, rc, sts, streams_to_flush, out, round),
         row_count        |-> WorkerRowCount(rc, streams_to_flush, out),
         streams          |-> IF raised THEN streams ELSE ClearBuckets(streams, streams_to_flush),
         flushed_state    |-> IF raised THEN fst
                              ELSE IF filter_streams # << >>
                                   THEN FlushedFiltered(fst, st, filter_streams)
                                   ELSE FlushedUnfiltered(fst, st, streams_to_flush)]

\* emit_state: one line on stdout, unless the state is None
emit_state(out, x) == IF x = None THEN out ELSE Append(out, x[1].d)

Round(trigger, filter_streams, r) ==
    [trigger |-> trigger, filter |-> filter_streams,
     streams |-> r.streams_to_flush, ok |-> r.ok]

\* the values a step starts from
Pre == [flushed_state |-> flushed_state, state |-> state,
        records_to_load |-> records_to_load, row_count |-> row_count,
        stream_to_sync |-> stream_to_sync, schemas |-> schemas, tables |-> tables,
        total_row_count |-> total_row_count, loads |-> loads, emitted |-> Len(emitted)]

\* a step without a flush round
Last(op, stream, key, pre) ==
    [op |-> op, stream |-> stream, key |-> key, round |-> "none", ok |-> TRUE,
     out |-> << >>, flushed |-> {}, pre |-> pre]

\* a step with a flush round r
LastRound(op, stream, key, kind, r, pre) ==
    [op |-> op, stream |-> stream, key |-> key, round |-> kind, ok |-> r.ok,
     out |-> r.out, flushed |-> r.streams_to_flush, pre |-> pre]

\* which branch of flush_streams updates the flushed checkpoint
Kind(filter_streams) == IF filter_streams # << >> THEN "filtered" ELSE "unfiltered"

\* d[k] = v
Put(d, k, v) == [x \in DOMAIN d \cup {k} |-> IF x = k THEN v ELSE d[x]]

RECURSIVE SumOver(_, _)
SumOver(f, dom) ==
    IF dom = {} THEN 0
    ELSE LET x == CHOOSE y \in dom : TRUE IN f[x] + SumOver(f, dom \ {x})

\* sum(row_count.values())
Sum(f) == SumOver(f, DOMAIN f)

\* ------------------------------------------------------------------ persist_lines
\* persist_lines' locals before the first line, and an empty warehouse
InitLocals ==
    /\ pc = "read"
    /\ pool = None
    /\ table_cache = EmptyDict
    /\ call = None
    /\ tables = EmptyDict
    /\ lines = 0
    /\ n_state = 0
    /\ schemas = EmptyDict
    /\ stream_to_sync = EmptyDict
    /\ records_to_load = EmptyDict
    /\ row_count = EmptyDict
    /\ total_row_count = EmptyDict
    /\ state = None
    /\ flushed_state = None
    /\ emitted = << >>
    /\ loads = {}
    /\ rounds = << >>
    /\ last = Last("init", "", "", Pre)

InitPersistLines ==
    /\ config \in {[batch_size_rows |-> c[1], flush_all_streams |-> c[2],
                     primary_key_required |-> TRUE] : c \in Configs}
    /\ n_record = [r \in RecordInputs |-> 0]
    /\ InitLocals

Reading == pc = "read" /\ lines < MaxLines

\* the number of RECORD lines received for stream s
NRecord(s) == SumOver(n_record, {r \in DOMAIN n_record : r[1] = s})

\* a flush round's effect on the buckets, the counters and the warehouse
ApplyRound(trigger, filter_streams, r) ==
    /\ records_to_load' = r.streams
    /\ loads' = loads \cup r.loads
    /\ rounds' = Append(rounds, Round(trigger, filter_streams, r))

CountAlways(streams, stream, primary_key_string) == TRUE

\* `if primary_key_string not in records_to_load[stream]`
CountRecord(streams, stream, primary_key_string) ==
    primary_key_string \notin DOMAIN streams[stream]

FlushNever(rc, stream, batch_size_rows) == FALSE

FlushAbove(rc, stream, batch_size_rows) == rc[stream] > batch_size_rows

\* `if row_count[stream] >= batch_size_rows`
FlushDue(rc, stream, batch_size_rows) == rc[stream] >= batch_size_rows

\* a RECORD line for a stream that has a schema
Record(s, id) ==
    /\ Reading
    /\ s \in DOMAIN schemas
    /\ LET rec  == RecordOf(id, NRecord(s) + 1, n_state)
           pks  == record_primary_key_string(stream_to_sync[s], rec)
           primary_key_string == IF pks = "" THEN RID(total_row_count[s]) ELSE pks
           rtl0 == IF s \in DOMAIN records_to_load THEN records_to_load
                   ELSE Put(records_to_load, s, EmptyDict)
           new  == CountRecord(rtl0, s, primary_key_string)
           rc1  == IF new THEN [row_count EXCEPT ![s] = @ + 1] ELSE row_count
           trc1 == IF new THEN [total_row_count EXCEPT ![s] = @ + 1] ELSE total_row_count
           rtl1 == [rtl0 EXCEPT ![s] = Put(rtl0[s], primary_key_string, rec)]
           filter_streams == IF config.flush_all_streams THEN << >> ELSE << s >>
       IN  IF pks = PrimaryKeyNotFound
           THEN /\ lines' = lines + 1
                /\ pc' = "aborted"
                /\ last' = Last("key_error", s, id, Pre)
                /\ UNCHANGED <<n_record, total_row_count, records_to_load, row_count,
                               flushed_state, emitted, loads, rounds>>
           ELSE /\ lines' = lines + 1
                /\ n_record' = [n_record EXCEPT ![<<s, id>>] = @ + 1]
                /\ total_row_count' = trc1
                /\ IF FlushDue(rc1, s, config.batch_size_rows)
                   THEN \E out \in WorkerOutcomes(Active(IF filter_streams # << >> THEN {s} ELSE DOMAIN rtl1, rc1)) :
                          LET r == flush_streams(rtl1, rc1, stream_to_sync, state, flushed_state,
                                                 filter_streams, out, Len(rounds) + 1)
                          IN  /\ ApplyRound("threshold", filter_streams, r)
                              /\ row_count' = r.row_count
                              /\ flushed_state' = r.flushed_state
                              /\ emitted' = IF r.ok THEN emit_state(emitted, DeepCopy(r.flushed_state))
                                            ELSE emitted
                              /\ pc' = IF r.ok THEN "read" ELSE "aborted"
                              /\ last' = LastRound("record", s, primary_key_string, Kind(filter_streams), r, Pre)
                   ELSE /\ records_to_load' = rtl1
                        /\ row_count' = rc1
                        /\ last' = Last("record", s, primary_key_string, Pre)
                        /\ UNCHANGED <<pc, flushed_state, emitted, loads, rounds>>
    /\ UNCHANGED <<table_cache, call, pool, config, n_state, schemas, stream_to_sync, state, tables>>

\* a RECORD line for a stream without a schema: persist_lines raises
RecordBeforeSchema(s, id) ==
    /\ Reading
    /\ s \notin DOMAIN schemas
    /\ lines' = lines + 1
    /\ pc' = "aborted"
    /\ last' = Last("error", s, id, Pre)
    /\ UNCHANGED <<table_cache, call, pool, config, n_state, n_record, schemas, stream_to_sync, records_to_load,
                   row_count, total_row_count, state, flushed_state, emitted, loads, tables,
                   rounds>>

SchemaFlushOnlyStream(stream) == << stream >>

\* the SCHEMA branch calls flush_streams without filter_streams
SchemaFlushFilter(stream) == << >>

\* the key_properties of a SCHEMA message that has no 'key_properties' key
Absent == << "<absent>" >>

KeyPropertiesAccepted(cfg, key_props) == FALSE

\* `'key_properties' not in o`, then
\* `config.get('primary_key_required', True) and len(o['key_properties']) == 0`
KeyPropertiesMissing(cfg, key_props) ==
    \/ key_props = Absent
    \/ (cfg.primary_key_required /\ Len(key_props) = 0)

\* the end of the SCHEMA branch after a flush that went well, or none: check
\* key_properties, build the DbSync, sync the table, reset the counters
AdoptSchema(s, db_sync, rc) ==
    IF KeyPropertiesMissing(config, db_sync.key_properties)
    THEN /\ pc' = "aborted"
         /\ row_count' = rc
         /\ UNCHANGED <<stream_to_sync, tables, total_row_count>>
    ELSE /\ pc' = "read"
         /\ stream_to_sync' = Put(stream_to_sync, s, db_sync)
         /\ tables' = Put(tables, s, sync_table_with(found_tables(table_cache, tables, s),
                                                     RowsOf(tables, s), db_sync))
         /\ row_count' = Put(rc, s, 0)
         /\ total_row_count' = Put(total_row_count, s, 0)

\* a SCHEMA line for stream s: the stream's n-th schema, with key_properties
\* and the type of its column
SchemaLine(s, n, key_props, type) ==
    /\ Reading
    /\ lines' = lines + 1
    /\ schemas' = Put(schemas, s, n)
    /\ IF s \in DOMAIN row_count /\ row_count[s] > 0
       THEN \E out \in WorkerOutcomes(Active(IF SchemaFlushFilter(s) # << >> THEN {s}
                                              ELSE DOMAIN records_to_load, row_count)) :
              LET r == flush_streams(records_to_load, row_count, stream_to_sync, state,
                                     flushed_state, SchemaFlushFilter(s), out,
                                     Len(rounds) + 1)
              IN  /\ ApplyRound("schema", SchemaFlushFilter(s), r)
                  /\ flushed_state' = r.flushed_state
                  /\ last' = LastRound("schema", s, ToString(key_props), Kind(SchemaFlushFilter(s)), r, Pre)
                  /\ IF r.ok
                     THEN /\ emitted' = emit_state(emitted, r.flushed_state)
                          /\ AdoptSchema(s, DbSyncOf(n, key_props, type), r.row_count)
                     ELSE /\ row_count' = r.row_count
                          /\ pc' = "aborted"
                          /\ UNCHANGED <<emitted, stream_to_sync, tables, total_row_count>>
       ELSE /\ AdoptSchema(s, DbSyncOf(n, key_props, type), row_count)
            /\ last' = Last("schema", s, ToString(key_props), Pre)
            /\ UNCHANGED <<records_to_load, flushed_state, emitted, loads, rounds>>
    /\ UNCHANGED <<table_cache, call, pool, config, n_state, n_record, state>>

\* a SCHEMA line with a schema the stream has not had, key_properties ['id']
\* and a string column
Schema(s) ==
    SchemaLine(s, IF s \in DOMAIN schemas THEN schemas[s] + 1 ELSE 1, << "id" >>, "string")

\* an ACTIVATE_VERSION line: logged only
ActivateVersion ==
    /\ Reading
    /\ lines' = lines + 1
    /\ last' = Last("activate_version", "", "", Pre)
    /\ UNCHANGED <<table_cache, call, pool, pc, config, n_state, n_record, schemas, stream_to_sync, records_to_load,
                   row_count, total_row_count, state, flushed_state, emitted, loads, tables,
                   rounds>>

InitFlushedAlways(fst) == TRUE

\* `if not flushed_state`
InitFlushed(fst) == Falsy(fst)

\* a STATE line
State(kind) ==
    /\ Reading
    /\ LET st == NewObject(StateValue(kind, n_state + 1), flushed_state)
       IN  /\ lines' = lines + 1
           /\ n_state' = n_state + 1
           /\ state' = st
           /\ flushed_state' = IF InitFlushed(flushed_state) THEN DeepCopy(st) ELSE flushed_state
    /\ last' = Last("state", "", "", Pre)
    /\ UNCHANGED <<table_cache, call, pool, pc, config, n_record, schemas, stream_to_sync, records_to_load, row_count,
                   total_row_count, emitted, loads, tables, rounds>>

\* the end of the input: the last flush and the last emit_state
EndOfInput ==
    /\ pc = "read"
    /\ IF Sum(row_count) > 0
       THEN \E out \in WorkerOutcomes(Active(DOMAIN records_to_load, row_count)) :
              LET r == flush_streams(records_to_load, row_count, stream_to_sync, state,
                                     flushed_state, << >>, out, Len(rounds) + 1)
              IN  /\ ApplyRound("eof", << >>, r)
                  /\ row_count' = r.row_count
                  /\ flushed_state' = r.flushed_state
                  /\ emitted' = IF r.ok THEN emit_state(emitted, DeepCopy(r.flushed_state))
                                ELSE emitted
                  /\ pc' = IF r.ok THEN "done" ELSE "aborted"
                  /\ last' = LastRound("eof", "", "", "unfiltered", r, Pre)
       ELSE /\ emitted' = emit_state(emitted, DeepCopy(flushed_state))
            /\ pc' = "done"
            /\ last' = Last("eof", "", "", Pre)
            /\ UNCHANGED <<records_to_load, row_count, flushed_state, loads, rounds>>
    /\ UNCHANGED <<table_cache, call, pool, config, lines, n_state, n_record, schemas, stream_to_sync,
                   total_row_count, state, tables>>

\* ------------------------------------------------------------------ handlers/record.py
\* the buckets flush_stream_buckets is called with
BucketInputs(s) ==
    {EmptyDict,
     [k \in {"a"} |-> RecordOf("a", 1, 0)],
     [k \in {"a", "b"} |-> RecordOf(k, IF k = "a" THEN 1 ELSE 2, 0)]}

\* a direct call of flush_stream_buckets: its arguments
InitFlushStreamBuckets ==
    /\ pc = "h_ready"
    /\ pool = None
    /\ table_cache = EmptyDict
    /\ call = None
    /\ config = [batch_size_rows |-> 100, flush_all_streams |-> FALSE,
                 primary_key_required |-> TRUE]
    /\ tables = [s \in Streams |-> sync_table(<< >>, DbSync(1, << "id" >>))]
    /\ lines = 0
    /\ n_state = 0
    /\ n_record = [r \in RecordInputs |-> 0]
    /\ schemas = [s \in Streams |-> 1]
    /\ stream_to_sync = [s \in Streams |-> DbSync(1, << "id" >>)]
    /\ records_to_load \in {b \in [Streams -> UNION {BucketInputs(s) : s \in Streams}] :
                              \A s \in Streams : b[s] \in BucketInputs(s)}
    /\ row_count = [s \in Streams |-> Cardinality(DOMAIN records_to_load[s])]
    /\ total_row_count = row_count
    /\ flushed_state \in {None} \cup {NewObject(StateValue(kind, 1), None) : kind \in StateKinds}
    /\ state \in {None} \cup {NewObject(StateValue(kind, 2), flushed_state) : kind \in StateKinds}
    /\ emitted = << >>
    /\ loads = {}
    /\ rounds = << >>
    /\ last = Last("init", "", "", Pre)

HasRecordsAlways(buckets, stream) == TRUE

\* load_records: `if records:`
HasRecords(buckets, stream) == DOMAIN buckets[stream] # {}

\* load_records, for every worker of the round: the loads that reached the
\* warehouse (db_sync.load_csv)
RecordLoads(buckets, sts, streams_to_flush, out, round) ==
    {[stream |-> s, rows |-> Range(buckets[s]), schema |-> sts[s].schema, round |-> round] :
        s \in {x \in streams_to_flush :
                 HasRecords(buckets, x) /\ out[x] \in {"done", "failed_after_load"}}}

\* flush_stream_buckets: `row_count[stream] = 0` for every flushed stream
ResetRowCount(rc, streams_to_flush) ==
    [s \in DOMAIN rc |-> IF s \in streams_to_flush THEN 0 ELSE rc[s]]

\* flush_stream_buckets(config, schemas, validators, buckets, streams_to_flush,
\* parallelism, row_count, stream_to_sync, state, flushed_state)
flush_stream_buckets(buckets, streams_to_flush, rc, sts, st, fst, out, round) ==
    LET stf    == SetOf(streams_to_flush)
        raised == \/ Raised(out)
                  \/ BookmarkTypeError(fst, st, streams_to_flush)
    IN  [ok               |-> ~raised,
         out              |-> out,
         streams_to_flush |-> stf,
         loads            |-> RecordLoads(buckets, sts, stf, out, round),
         row_count        |-> IF raised THEN rc ELSE ResetRowCount(rc, stf),
         streams          |-> IF raised THEN buckets ELSE ClearBuckets(buckets, stf),
         flushed_state    |-> IF raised THEN fst ELSE CopyBookmarks(fst, st, streams_to_flush)]

StreamLists == {<< >>, << "s1" >>, << "s2" >>, << "s1", "s2" >>}

FlushStreamBuckets(streams_to_flush) ==
    /\ pc = "h_ready"
    /\ \E out \in WorkerOutcomes({s \in SetOf(streams_to_flush) : HasRecords(records_to_load, s)}) :
         LET r == flush_stream_buckets(records_to_load, streams_to_flush, row_count,
                                       stream_to_sync, state, flushed_state, out, 1)
         IN  /\ ApplyRound("direct", streams_to_flush, r)
             /\ row_count' = r.row_count
             /\ flushed_state' = r.flushed_state
             /\ pc' = IF r.ok THEN "h_done" ELSE "h_failed"
             /\ last' = LastRound("flush_stream_buckets", "", "", "filtered", r, Pre)
    /\ UNCHANGED <<table_cache, call, pool, config, lines, n_state, n_record, schemas, stream_to_sync,
                   total_row_count, state, emitted, tables>>

Init == InitPersistLines \/ InitFlushStreamBuckets

Next ==
    \/ \E r \in RecordInputs : Record(r[1], r[2])
    \/ \E r \in RecordInputs : RecordBeforeSchema(r[1], r[2])
    \/ \E s \in Streams : Schema(s)
    \/ ActivateVersion
    \/ \E kind \in StateKinds : State(kind)
    \/ EndOfInput
    \/ \E l \in StreamLists : FlushStreamBuckets(l)

Spec == Init /\ [][Next]_vars

\* ------------------------------------------------------------------ SCHEMA lines
\* persist_lines on one stream, with SCHEMA lines that repeat or change the
\* stream's schema, with and without key properties
SchemaConfigs == {<<100, TRUE>>, <<100, FALSE>>, <<2, FALSE>>}
SchemaKeyProperties == {<< >>, << "id" >>, Absent}
ColumnTypes == {"string", "date-time"}

InitSchemas ==
    /\ config \in {[batch_size_rows |-> c[1], flush_all_streams |-> FALSE,
                     primary_key_required |-> c[2]] : c \in SchemaConfigs}
    /\ n_record = [r \in {<<"s1", "a">>} |-> 0]
    /\ InitLocals

\* a SCHEMA line identical to the one stored for the stream
SameSchema(s) ==
    /\ s \in DOMAIN stream_to_sync
    /\ SchemaLine(s, schemas[s], stream_to_sync[s].key_properties, stream_to_sync[s].type)

\* a SCHEMA line with a schema the stream has not had
ChangedSchema(s, key_props, type) ==
    SchemaLine(s, IF s \in DOMAIN schemas THEN schemas[s] + 1 ELSE 1, key_props, type)

NextSchemas ==
    \/ Record("s1", "a")
    \/ \E kp \in SchemaKeyProperties, t \in ColumnTypes : ChangedSchema("s1", kp, t)
    \/ SameSchema("s1")
    \/ State("bm1")
    \/ EndOfInput

SpecSchemas == InitSchemas /\ [][NextSchemas]_vars

\* ------------------------------------------------------------------ table_cache
\* persist_lines as main() calls it: load_table_cache has read the columns of
\* the tables the warehouse had before the run, unless disable_table_cache
IntegerTypes == {"string", "integer"}

\* load_table_cache: the columns of the schema's tables, or an empty list
load_table_cache(disable_table_cache, warehouse) ==
    IF disable_table_cache THEN EmptyDict ELSE warehouse

InitCache ==
    /\ pc = "read"
    /\ pool = None
    /\ call = None
    /\ config = [batch_size_rows |-> 100, flush_all_streams |-> FALSE,
                 primary_key_required |-> TRUE]
    /\ \E existing \in SUBSET Streams, t \in IntegerTypes :
          tables = [s \in existing |-> sync_table(<< >>, DbSyncOf(1, << "id" >>, t))]
    /\ \E disable_table_cache \in BOOLEAN :
          table_cache = load_table_cache(disable_table_cache, tables)
    /\ n_record = [r \in {<<"s1", "a">>} |-> 0]
    /\ lines = 0
    /\ n_state = 0
    /\ schemas = EmptyDict
    /\ stream_to_sync = EmptyDict
    /\ records_to_load = EmptyDict
    /\ row_count = EmptyDict
    /\ total_row_count = EmptyDict
    /\ state = None
    /\ flushed_state = None
    /\ emitted = << >>
    /\ loads = {}
    /\ rounds = << >>
    /\ last = Last("init", "", "", Pre)

NextCache ==
    \/ \E s \in Streams, t \in IntegerTypes : ChangedSchema(s, << "id" >>, t)
    \/ Record("s1", "a")
    \/ State("bm1")
    \/ EndOfInput

SpecCache == InitCache /\ [][NextCache]_vars

\* ------------------------------------------------------------------ batch_size_rows = 1
\* persist_lines with batch_size_rows = 1 on records with distinct ids of one
\* stream, between STATE lines with bookmarks for two streams
BatchOneRecords == {<<"s1", "a">>, <<"s1", "b">>, <<"s1", "c">>}

InitBatchOne ==
    /\ config \in {[batch_size_rows |-> 1, flush_all_streams |-> f,
                     primary_key_required |-> TRUE] : f \in BOOLEAN}
    /\ n_record = [r \in BatchOneRecords |-> 0]
    /\ InitLocals

NextBatchOne ==
    \/ \E r \in BatchOneRecords : Record(r[1], r[2])
    \/ Schema("s1")
    \/ State("bm12")
    \/ EndOfInput

SpecBatchOne == InitBatchOne /\ [][NextBatchOne]_vars

\* ------------------------------------------------------------------ one flush round, thread by thread
\* the parallelism settings of config.json, and whether an S3 bucket is set
\* (without one DbSync uploads through the table stage)
ParallelConfigs ==
    {[parallelism |-> p, max_parallelism |-> m, s3_bucket |-> b] :
        p \in {0, 1, 5}, m \in {1, 16}, b \in BOOLEAN}

\* the streams that have a bucket when flush_streams is called
BucketStreams == {{"s1"}, {"s1", "s2"}}

Min(a, b) == IF a < b THEN a ELSE b

ParallelismConfigured(cfg, streams) == cfg.parallelism

\* flush_streams: the n_jobs of the threading backend
Parallelism(cfg, streams) ==
    IF cfg.parallelism = 0
    THEN Min(Cardinality(DOMAIN streams), cfg.max_parallelism)
    ELSE cfg.parallelism

\* DbSync.__init__: the upload client
UploadClient(cfg) == IF cfg.s3_bucket THEN "s3" ELSE "table_stage"

\* the positions of a worker thread inside load_stream_batch
Working == {"started", "loading", "staged", "loaded", "unstaged", "deleted"}

\* the worker threads that are inside load_stream_batch
InProgress(workers) == {s \in DOMAIN workers : workers[s] \in Working}

\* the worker threads that are inside put_to_stage
Uploading(workers) == {s \in DOMAIN workers : workers[s] = "loading"}

JoinedAlways(workers) == TRUE

\* Parallel()(...) returns: every task has returned
Joined(workers) == \A s \in DOMAIN workers : workers[s] = "done"

\* one access to a variable shared by the threads of the round
Access(by, kind, var, stream, workers) ==
    [by |-> by, kind |-> kind, var |-> var, stream |-> stream,
     running |-> InProgress(workers)]

\* one call to the stage or the warehouse, made for a stream
Call(stream, op) == [stream |-> stream, op |-> op]

LoadStatementMerge(db_sync) == "merge"

\* DbSync.load_file: MERGE if the stream has key properties, else COPY
LoadStatement(db_sync) == IF Len(db_sync.key_properties) > 0 THEN "merge" ELSE "copy"

DeleteRowsAlways(cfg) == TRUE

\* `delete_rows=config.get('hard_delete')`, `if delete_rows:`
DeleteRows(cfg) == cfg.hard_delete

\* the locals of persist_lines when it calls flush_streams with configuration
\* cfg and the DbSync instances sts
RoundLocals(cfg, sts) ==
    /\ pc = "f_ready"
    /\ pool = None
    /\ table_cache = EmptyDict
    /\ call = None
    /\ config = cfg
    /\ tables = [s \in Streams |-> sync_table(<< >>, sts[s])]
    /\ lines = 0
    /\ n_state = 0
    /\ n_record = [r \in RecordInputs |-> 0]
    /\ schemas = [s \in Streams |-> 1]
    /\ stream_to_sync = sts
    /\ \E dom \in BucketStreams :
          records_to_load \in {b \in [dom -> UNION {BucketInputs(s) : s \in dom}] :
                                  \E s \in dom : b[s] # EmptyDict}
    /\ row_count = [s \in Streams |-> IF s \in DOMAIN records_to_load
                                      THEN Cardinality(DOMAIN records_to_load[s]) ELSE 0]
    /\ total_row_count = row_count
    /\ \E st \in {None, NewObject(StateValue("bm12", 1), None)} :
          /\ flushed_state = st
          /\ state = IF st = None THEN None ELSE NewObject(StateValue("bm12", 2), st)
    /\ emitted = << >>
    /\ loads = {}
    /\ rounds = << >>
    /\ last = Last("init", "", "", Pre)

\* a flush round under each parallelism setting, with and without hard_delete
InitRound ==
    \E c \in ParallelConfigs, hd \in BOOLEAN :
        RoundLocals([batch_size_rows |-> 100, flush_all_streams |-> FALSE,
                     primary_key_required |-> TRUE, parallelism |-> c.parallelism,
                     max_parallelism |-> c.max_parallelism, s3_bucket |-> c.s3_bucket,
                     hard_delete |-> hd],
                    [s \in Streams |-> DbSync(1, << "id" >>)])

\* flush_streams up to the Parallel() call: the streams to flush and n_jobs
CallFlushStreams(filter_streams) ==
    /\ pc = "f_ready"
    /\ LET streams_to_flush == IF filter_streams # << >> THEN SetOf(filter_streams)
                               ELSE DOMAIN records_to_load
       IN  pool' = Some([n_jobs  |-> Parallelism(config, records_to_load),
                         filter  |-> filter_streams,
                         workers |-> [s \in streams_to_flush |-> "queued"],
                         access  |-> {},
                         calls   |-> << >>])
    /\ pc' = "f_running"
    /\ last' = Last("flush_streams", "", "", Pre)
    /\ UNCHANGED <<table_cache, call, config, lines, n_state, n_record, schemas, stream_to_sync, records_to_load,
                   row_count, total_row_count, state, flushed_state, emitted, loads, tables,
                   rounds>>

\* the task of stream s is at position `at`
WorkerAt(s, at) ==
    pool # None /\ s \in DOMAIN pool[1].workers /\ pool[1].workers[s] \in at

\* the step of a worker thread changes the pool only
WorkerStep(s, to, access) ==
    pool' = Some([pool[1] EXCEPT !.workers[s] = to, !.access = @ \cup access])

\* a step of a worker thread that calls the stage or the warehouse
WorkerCall(s, to, op) ==
    pool' = Some([pool[1] EXCEPT !.workers[s] = to, !.calls = Append(@, Call(s, op))])

\* a free thread of the backend takes the next task
WorkerStart(s) ==
    /\ pc = "f_running"
    /\ WorkerAt(s, {"queued"})
    /\ Cardinality(InProgress(pool[1].workers)) < pool[1].n_jobs
    /\ WorkerStep(s, "started", {})
    /\ UNCHANGED <<table_cache, call, pc, config, lines, n_state, n_record, schemas, stream_to_sync,
                   records_to_load, row_count, total_row_count, state, flushed_state, emitted,
                   loads, tables, rounds, last>>

\* load_stream_batch: `if row_count[stream] > 0`, then flush_records writes
\* the bucket's records to a file and starts uploading it
WorkerGuard(s) ==
    /\ WorkerAt(s, {"started"})
    /\ IF LoadGuard(row_count, s)
       THEN WorkerStep(s, "loading",
                       {Access(s, "read", "row_count", s, pool[1].workers),
                        Access(s, "read", "bucket", s, pool[1].workers)})
       ELSE WorkerStep(s, "done", {Access(s, "read", "row_count", s, pool[1].workers)})
    /\ UNCHANGED <<table_cache, call, pc, config, lines, n_state, n_record, schemas, stream_to_sync,
                   records_to_load, row_count, total_row_count, state, flushed_state, emitted,
                   loads, tables, rounds, last>>

\* flush_records: put_to_stage has returned, the file is in the stage
WorkerPut(s) ==
    /\ WorkerAt(s, {"loading"})
    /\ WorkerCall(s, "staged", "put")
    /\ UNCHANGED <<table_cache, call, pc, config, lines, n_state, n_record, schemas, stream_to_sync,
                   records_to_load, row_count, total_row_count, state, flushed_state, emitted,
                   loads, tables, rounds, last>>

\* flush_records: load_csv, the bulk load of the staged file
WorkerLoad(s) ==
    /\ WorkerAt(s, {"staged"})
    /\ loads' = loads \cup {[stream |-> s, rows |-> Range(records_to_load[s]),
                             schema |-> stream_to_sync[s].schema, round |-> Len(rounds) + 1]}
    /\ WorkerCall(s, "loaded", LoadStatement(stream_to_sync[s]))
    /\ UNCHANGED <<table_cache, call, pc, config, lines, n_state, n_record, schemas, stream_to_sync,
                   records_to_load, row_count, total_row_count, state, flushed_state, emitted,
                   tables, rounds, last>>

\* flush_records: os.remove and delete_from_stage
WorkerUnstage(s) ==
    /\ WorkerAt(s, {"loaded"})
    /\ WorkerCall(s, "unstaged", "delete_from_stage")
    /\ UNCHANGED <<table_cache, call, pc, config, lines, n_state, n_record, schemas, stream_to_sync,
                   records_to_load, row_count, total_row_count, state, flushed_state, emitted,
                   loads, tables, rounds, last>>

\* load_stream_batch: `if delete_rows: db_sync.delete_rows(stream)`
WorkerDeleteRows(s) ==
    /\ WorkerAt(s, {"unstaged"})
    /\ DeleteRows(config)
    /\ WorkerCall(s, "deleted", "delete_rows")
    /\ UNCHANGED <<table_cache, call, pc, config, lines, n_state, n_record, schemas, stream_to_sync,
                   records_to_load, row_count, total_row_count, state, flushed_state, emitted,
                   loads, tables, rounds, last>>

\* load_stream_batch: `row_count[stream] = 0`
WorkerReset(s) ==
    /\ \/ WorkerAt(s, {"unstaged"}) /\ ~DeleteRows(config)
       \/ WorkerAt(s, {"deleted"})
    /\ row_count' = [row_count EXCEPT ![s] = 0]
    /\ pool' = Some([pool[1] EXCEPT
                       !.workers[s] = "done",
                       !.access = @ \cup {Access(s, "write", "row_count", s, pool[1].workers)},
                       !.calls = Append(@, Call(s, "reset"))])
    /\ UNCHANGED <<table_cache, call, pc, config, lines, n_state, n_record, schemas, stream_to_sync,
                   records_to_load, total_row_count, state, flushed_state, emitted, loads,
                   tables, rounds, last>>

\* the next call of a worker raises: the upload, the bulk load, the removal of
\* the staged file, or the DELETE of hard_delete
WorkerFail(s) ==
    /\ \/ WorkerAt(s, {"loading", "staged", "loaded"})
       \/ WorkerAt(s, {"unstaged"}) /\ DeleteRows(config)
    /\ WorkerCall(s, "failed", "raise")
    /\ UNCHANGED <<table_cache, call, pc, config, lines, n_state, n_record, schemas, stream_to_sync,
                   records_to_load, row_count, total_row_count, state, flushed_state, emitted,
                   loads, tables, rounds, last>>

\* flush_streams after the `with parallel_backend` block: the dispatcher resets
\* the buckets of the flushed streams and updates the flushed checkpoint
Join ==
    /\ pc = "f_running"
    /\ Joined(pool[1].workers)
    /\ LET streams_to_flush == DOMAIN pool[1].workers
           filter_streams == pool[1].filter
           raised == filter_streams # << >>
                     /\ BookmarkTypeError(flushed_state, state, filter_streams)
       IN  /\ records_to_load' = ClearBuckets(records_to_load, streams_to_flush)
           /\ flushed_state' = IF raised THEN flushed_state
                               ELSE IF filter_streams # << >>
                                    THEN FlushedFiltered(flushed_state, state, filter_streams)
                                    ELSE FlushedUnfiltered(flushed_state, state,
                                                           streams_to_flush)
           /\ pool' = Some([pool[1] EXCEPT !.access = @ \cup
                              {Access("dispatcher", "write", "bucket", s, pool[1].workers) :
                                 s \in streams_to_flush}])
           /\ pc' = IF raised THEN "f_failed" ELSE "f_done"
           /\ rounds' = Append(rounds, [trigger |-> "call", filter |-> filter_streams,
                                        streams |-> streams_to_flush, ok |-> ~raised])
    /\ UNCHANGED <<table_cache, call, config, lines, n_state, n_record, schemas, stream_to_sync, row_count,
                   total_row_count, state, emitted, loads, tables, last>>

\* Parallel()(...) re-raises the exception of a task: flush_streams is left
\* before its clean-up loop, and no further task is started
Raise ==
    /\ pc = "f_running"
    /\ \E s \in DOMAIN pool[1].workers : pool[1].workers[s] = "failed"
    /\ pc' = "f_failed"
    /\ rounds' = Append(rounds, [trigger |-> "call", filter |-> pool[1].filter,
                                 streams |-> DOMAIN pool[1].workers, ok |-> FALSE])
    /\ UNCHANGED <<table_cache, call, pool, config, lines, n_state, n_record, schemas, stream_to_sync,
                   records_to_load, row_count, total_row_count, state, flushed_state, emitted,
                   loads, tables, last>>

\* the steps of the worker thread of stream s
Worker(s) ==
    \/ WorkerStart(s)
    \/ WorkerGuard(s)
    \/ WorkerPut(s)
    \/ WorkerLoad(s)
    \/ WorkerUnstage(s)
    \/ WorkerDeleteRows(s)
    \/ WorkerReset(s)
    \/ WorkerFail(s)

NextRound ==
    \/ CallFlushStreams(<< >>)
    \/ \E s \in DOMAIN records_to_load : row_count[s] > 0 /\ CallFlushStreams(<< s >>)
    \/ \E s \in Streams : Worker(s)
    \/ Join
    \/ Raise

SpecRound == InitRound /\ [][NextRound]_vars

\* ------------------------------------------------------------------ the calls of a flush round
\* a flush round with and without hard_delete, on streams with and without
\* key properties
InitLoad ==
    \E hd \in BOOLEAN, sts \in [Streams -> {DbSync(1, << "id" >>), DbSync(1, << >>)}] :
        RoundLocals([batch_size_rows |-> 100, flush_all_streams |-> FALSE,
                     primary_key_required |-> FALSE, parallelism |-> 0,
                     max_parallelism |-> 16, s3_bucket |-> TRUE, hard_delete |-> hd],
                    sts)

SpecLoad == InitLoad /\ [][NextRound]_vars

\* ------------------------------------------------------------------ protocol errors
\* a line of the input as persist_lines looks at it: whether json.loads
\* accepts it, its 'type' and its 'stream' ("" for a missing key)
LineOf(json, type, stream) == [json |-> json, type |-> type, stream |-> stream]

\* lines that hold no usable message, and RECORD lines
BadLines ==
    {LineOf(FALSE, "", ""), LineOf(TRUE, "", ""), LineOf(TRUE, "RECORD", ""),
     LineOf(TRUE, "SCHEMA", ""), LineOf(TRUE, "BATCH", "s1"), LineOf(TRUE, "RECORD", "s1"),
     LineOf(TRUE, "RECORD", "s2")}

\* the checks of persist_lines on a line, in their order: the exception raised,
\* or "none"
ProtocolError(line, sch) ==
    IF ~line.json THEN "JSONDecodeError"
    ELSE IF line.type = "" THEN "missing_type"
    ELSE IF line.type = "RECORD"
         THEN IF line.stream = "" THEN "missing_stream"
              ELSE IF line.stream \notin DOMAIN sch THEN "record_before_schema"
              ELSE "none"
    ELSE IF line.type = "SCHEMA"
         THEN IF line.stream = "" THEN "missing_stream" ELSE "none"
    ELSE IF line.type \in {"ACTIVATE_VERSION", "STATE"} THEN "none"
    ELSE "unknown_type"

RaiseIgnored(err) == "read"

\* `raise`: persist_lines is left
RaiseError(err) == IF err = "none" THEN "read" ELSE "aborted"

\* a line that fails one of the checks
BadLine(line) ==
    /\ Reading
    /\ ProtocolError(line, schemas) # "none"
    /\ lines' = lines + 1
    /\ pc' = RaiseError(ProtocolError(line, schemas))
    /\ last' = Last("error", line.stream, ProtocolError(line, schemas), Pre)
    /\ UNCHANGED <<table_cache, call, pool, config, n_state, n_record, schemas, stream_to_sync, records_to_load,
                   row_count, total_row_count, state, flushed_state, emitted, loads, tables,
                   rounds>>

NextErrors ==
    \/ \E r \in RecordInputs : Record(r[1], r[2])
    \/ \E s \in Streams, id \in {AbsentId, NullId} : Record(s, id)
    \/ \E s \in Streams : Schema(s)
    \/ State("bm12")
    \/ \E line \in BadLines : BadLine(line)
    \/ EndOfInput

SpecErrors == InitPersistLines /\ [][NextErrors]_vars

\* ------------------------------------------------------------------ batch_wait_limit_seconds
\* the seconds between two lines of the input, and the configured
\* batch_wait_limit_seconds: every line arrives after the limit has elapsed
WaitIncrement == 11
WaitLimit == 10

\* persist_lines with a batch size that is never reached and a wait limit
InitWait ==
    /\ config = [batch_size_rows |-> 100, flush_all_streams |-> TRUE,
                 primary_key_required |-> TRUE, batch_wait_limit_seconds |-> WaitLimit]
    /\ n_record = [r \in RecordInputs |-> 0]
    /\ InitLocals

NextWait ==
    \/ \E r \in RecordInputs : Record(r[1], r[2])
    \/ \E s \in Streams : Schema(s)
    \/ State("bm12")
    \/ EndOfInput

SpecWait == InitWait /\ [][NextWait]_vars

\* ------------------------------------------------------------------ functions called on their own
\* the program's variables while a function is called on its own
NoRun ==
    /\ pool = None
    /\ table_cache = EmptyDict
    /\ config = EmptyDict
    /\ tables = EmptyDict
    /\ lines = 0
    /\ n_state = 0
    /\ n_record = EmptyDict
    /\ schemas = EmptyDict
    /\ stream_to_sync = EmptyDict
    /\ records_to_load = EmptyDict
    /\ row_count = EmptyDict
    /\ total_row_count = EmptyDict
    /\ state = None
    /\ flushed_state = None
    /\ emitted = << >>
    /\ loads = {}
    /\ rounds = << >>
    /\ last = Last("init", "", "", Pre)

\* the function returns or raises: `result` is what it did
Return(fn, result) ==
    /\ pc = "call"
    /\ call # None
    /\ call[1].fn = fn
    /\ call' = Some([call[1] EXCEPT !.result = Some(result)])
    /\ pc' = "returned"
    /\ UNCHANGED <<table_cache, pool, config, lines, n_state, n_record, schemas, stream_to_sync,
                   records_to_load, row_count, total_row_count, state, flushed_state, emitted,
                   loads, tables, rounds, last>>

\* ------------------------------------------------------------------ adjust_timestamps_in_record
MAX_TIMESTAMP == "9999-12-31 23:59:59.999999"
MAX_TIME == "23:59:59.999999"

\* the values of a record's fields: None, strings, an integer
NoneValue == [type |-> "NoneType", v |-> ""]
StrValue(v) == [type |-> "str", v |-> v]
IntValue(v) == [type |-> "int", v |-> v]

FieldValues ==
    {NoneValue, StrValue("2030-01-22"), StrValue("10000-01-22 12:04:22"), StrValue("25:01:01"),
     StrValue("I'm good"), IntValue("100")}

\* dateutil's parser.parse on these values: it returns, raises ParserError
\* (year 10000, hour 25, no date at all), or raises TypeError on a non-string
parser_parse(value) ==
    IF value.type # "str" THEN "TypeError"
    ELSE IF value.v \in {"2030-01-22"} THEN "ok"
    ELSE "ParserError"

\* reset_new_value: only ParserError is caught
reset_new_value(value, format) ==
    CASE parser_parse(value) = "ok" -> [value |-> value, raised |-> "none"]
      [] parser_parse(value) = "ParserError" ->
            [value |-> StrValue(IF format # "time" THEN MAX_TIMESTAMP ELSE MAX_TIME),
             raised |-> "none"]
      [] OTHER -> [value |-> value, raised |-> parser_parse(value)]

\* a type declaration of a schema property; format "" for none
Decl(type, format) == [type |-> type, format |-> format]

\* a schema property: a declaration, or anyOf a list of declarations
Plain(decl) == [anyOf |-> FALSE, decls |-> << decl >>]
AnyOf(decls) == [anyOf |-> TRUE, decls |-> decls]

DateFormats == {"date-time", "time", "date"}

\* `'string' in type and format in {'date-time', 'time', 'date'}`
IsDate(decl) == "string" \in decl.type /\ decl.format \in DateFormats

\* the loop over anyOf: the first alternative that is a date, 0 if none
RECURSIVE FirstDate(_, _)
FirstDate(decls, i) ==
    IF i > Len(decls) THEN 0
    ELSE IF IsDate(decls[i]) THEN i
    ELSE FirstDate(decls, i + 1)

\* the body of the loop of adjust_timestamps_in_record for one field
adjust_field(value, properties, key) ==
    IF value = NoneValue \/ key \notin DOMAIN properties
    THEN [value |-> value, raised |-> "none"]
    ELSE LET p == properties[key]
             i == IF p.anyOf THEN FirstDate(p.decls, 1)
                  ELSE IF IsDate(p.decls[1]) THEN 1 ELSE 0
         IN  IF i = 0 THEN [value |-> value, raised |-> "none"]
             ELSE reset_new_value(value, p.decls[i].format)

\* adjust_timestamps_in_record(record, schema): the loop over record.items(),
\* in the order `keys`; the record as it is left, and the exception raised
RECURSIVE adjust_timestamps_in_record(_, _, _)
adjust_timestamps_in_record(record, properties, keys) ==
    IF keys = << >> THEN [record |-> record, raised |-> "none"]
    ELSE LET r == adjust_field(record[Head(keys)], properties, Head(keys))
         IN  IF r.raised # "none" THEN [record |-> record, raised |-> r.raised]
             ELSE adjust_timestamps_in_record([record EXCEPT ![Head(keys)] = r.value],
                                              properties, Tail(keys))

RecordKeys == << "key1", "key2" >>

\* the declarations of the first field in the schema, and of the second
Properties1 ==
    {Plain(Decl({"null", "string"}, "")),
     Plain(Decl({"null", "string"}, "date-time")),
     Plain(Decl({"null", "string"}, "time")),
     Plain(Decl({"null", "integer"}, "date")),
     AnyOf(<< Decl({"null", "string"}, "date"), Decl({"null", "string"}, "") >>),
     AnyOf(<< Decl({"null", "string"}, ""), Decl({"null", "string"}, "time") >>)}
Properties2 ==
    {Plain(Decl({"null", "string"}, "date")),
     AnyOf(<< Decl({"null", "integer"}, ""), Decl({"null", "string"}, "time") >>)}

\* the schemas: the second field is declared, the first may not be
SchemaProperties ==
    {[k \in {"key1", "key2"} |-> IF k = "key1" THEN p1 ELSE p2] :
        p1 \in Properties1, p2 \in Properties2}
    \cup {[k \in {"key2"} |-> p2] : p2 \in Properties2}

InitAdjust ==
    /\ pc = "call"
    /\ \E record \in [SetOf(RecordKeys) -> FieldValues], properties \in SchemaProperties :
          call = Some([fn |-> "adjust_timestamps_in_record", record |-> record,
                       properties |-> properties, result |-> None])
    /\ NoRun

AdjustTimestamps ==
    Return("adjust_timestamps_in_record",
           adjust_timestamps_in_record(call[1].record, call[1].properties, RecordKeys))

SpecAdjust == InitAdjust /\ [][AdjustTimestamps]_vars

\* ------------------------------------------------------------------ update_columns
\* update_columns on a table of several columns: the table's columns as the
\* metadata has them (COLUMN_NAME -> DATA_TYPE) and the flattened schema
\* (name -> schema property, in the order of the dict)
ColumnNames == {"c_pk", "c_date"}
PropertyTypes == {"string", "integer", "date-time"}
DataTypes == {"TEXT", "NUMBER", "TIMESTAMP_NTZ", "TIMESTAMP_TZ"}

\* str.upper() on the names and types that occur
Upper(str) ==
    CASE str = "c_pk"          -> "C_PK"
      [] str = "c_date"        -> "C_DATE"
      [] str = "c_int"         -> "C_INT"
      [] str = "text"          -> "TEXT"
      [] str = "number"        -> "NUMBER"
      [] str = "timestamp_ntz" -> "TIMESTAMP_NTZ"
      [] OTHER                 -> str

\* columns_to_add: the columns of the schema that the table does not have
ColumnsToAdd(columns_dict, flatten_schema) ==
    LET missing(c) == Upper(c.name) \notin DOMAIN columns_dict
    IN  SelectSeq(flatten_schema, missing)

\* columns_to_replace: the columns whose type differs from the required one,
\* unless the required type is TIMESTAMP_NTZ
ColumnsToReplace(columns_dict, flatten_schema) ==
    LET differs(c) == /\ Upper(c.name) \in DOMAIN columns_dict
                      /\ columns_dict[Upper(c.name)] # Upper(column_type(c.type))
                      /\ Upper(column_type(c.type)) # "TIMESTAMP_NTZ"
    IN  SelectSeq(flatten_schema, differs)

\* add_column for each column to add
RECURSIVE AddColumns(_)
AddColumns(cols) ==
    IF cols = << >> THEN << >>
    ELSE << [op |-> "add", name |-> Head(cols).name, type |-> column_type(Head(cols).type)] >>
         \o AddColumns(Tail(cols))

\* version_column, then add_column, for each column to replace
RECURSIVE ReplaceColumns(_)
ReplaceColumns(cols) ==
    IF cols = << >> THEN << >>
    ELSE << [op |-> "version", name |-> Head(cols).name, type |-> column_type(Head(cols).type)],
            [op |-> "add", name |-> Head(cols).name, type |-> column_type(Head(cols).type)] >>
         \o ReplaceColumns(Tail(cols))

\* update_columns: the statements it runs, in order
UpdateColumnsQueries(columns_dict, flatten_schema) ==
    AddColumns(ColumnsToAdd(columns_dict, flatten_schema))
        \o ReplaceColumns(ColumnsToReplace(columns_dict, flatten_schema))

\* the flattened schemas: one or two columns, in either order
FlattenSchemas ==
    {<< [name |-> n, type |-> t] >> : n \in ColumnNames, t \in PropertyTypes}
    \cup {sch \in UNION {{<< [name |-> n1, type |-> t1], [name |-> n2, type |-> t2] >> :
                             t1 \in PropertyTypes, t2 \in PropertyTypes} :
                          n1 \in ColumnNames, n2 \in ColumnNames} :
              sch[1].name # sch[2].name}

\* the tables: any of the columns, with any of the types
ColumnsDicts ==
    UNION {[{Upper(n) : n \in names} -> DataTypes] : names \in SUBSET ColumnNames}

InitColumns ==
    /\ pc = "call"
    /\ \E columns_dict \in ColumnsDicts, flatten_schema \in FlattenSchemas :
          call = Some([fn |-> "update_columns", columns_dict |-> columns_dict,
                       flatten_schema |-> flatten_schema, result |-> None])
    /\ NoRun

UpdateColumns ==
    Return("update_columns", UpdateColumnsQueries(call[1].columns_dict, call[1].flatten_schema))

SpecColumns == InitColumns /\ [][UpdateColumns]_vars

\* ------------------------------------------------------------------ catalog queries
\* what the warehouse answers to a catalog statement: rows, or an error
\* (str(exception) starts with the error code; `class` is the exception class)
MaxRecords == 99999
RowCounts == {0, 1, MaxRecords, MaxRecords + 1}

Rows(rowcount, rows) ==
    [kind |-> "rows", rowcount |-> rowcount, rows |-> rows, class |-> "", code |-> "",
     text |-> ""]

Error(class, code, text) ==
    [kind |-> "error", rowcount |-> 0, rows |-> << >>, class |-> class, code |-> code,
     text |-> text]

WarehouseErrors ==
    {Error("ProgrammingError", "002043", "does not exist"),
     Error("ProgrammingError", "002003", "does not exist or not authorized"),
     Error("ProgrammingError", "001003", "syntax error"),
     Error("OperationalError", "250001", "could not connect")}

\* raise TooManyRecordsException(...)
TooManyRecordsException == Error("TooManyRecordsException", "", "too many records")

\* query: the rows of the statement, or the exception it raises; a result of
\* more than max_records rows raises when max_records > 0
CapNever(max_records, rowcount) == FALSE

Cap(max_records, rowcount) == 0 < max_records /\ max_records < rowcount

query(answer, max_records) ==
    IF answer.kind = "error" THEN answer
    ELSE IF Cap(max_records, answer.rowcount) THEN TooManyRecordsException
    ELSE answer

\* re.match(r'002043 \(02000\):.*\n.*does not exist.*', ...) on a ProgrammingError
SchemaNotExists(error) ==
    /\ error.class = "ProgrammingError"
    /\ error.code = "002043"
    /\ error.text \in {"does not exist", "does not exist or not authorized"}

\* re.match(r'002003 \(02000\):.*\n.*does not exist or not authorized.*', ...)
ColumnsNotExist(error) ==
    /\ error.class = "ProgrammingError"
    /\ error.code = "002003"
    /\ error.text = "does not exist or not authorized"

CaughtNever(fn, error) == FALSE

\* the `except ProgrammingError` clause of the lookup lets the error pass
Caught(fn, error) ==
    IF fn = "get_table_columns" THEN ColumnsNotExist(error) ELSE SchemaNotExists(error)

\* what a function did: it returned a value or raised an exception
Returned(value) == [raised |-> FALSE, value |-> value, error |-> Rows(0, << >>)]
Raises(error) == [raised |-> TRUE, value |-> << >>, error |-> error]

\* get_tables: `tables = self.query(queries)` for each schema in turn
RECURSIVE get_tables_from(_, _)
get_tables_from(answers, found) ==
    IF answers = << >> THEN Returned(found)
    ELSE LET r == query(Head(answers), 0)
         IN  IF r.kind = "rows" THEN get_tables_from(Tail(answers), r.rows)
             ELSE IF Caught("get_tables", r) THEN get_tables_from(Tail(answers), found)
             ELSE Raises(r)

get_tables(answers) == get_tables_from(answers, << >>)

\* get_table_columns: `table_columns.extend(columns)` for each schema in turn
RECURSIVE get_table_columns_from(_, _)
get_table_columns_from(answers, table_columns) ==
    IF answers = << >> THEN Returned(table_columns)
    ELSE LET r == query(Head(answers), MaxRecords)
         IN  IF r.kind = "rows"
             THEN get_table_columns_from(Tail(answers), table_columns \o r.rows)
             ELSE IF Caught("get_table_columns", r)
                  THEN get_table_columns_from(Tail(answers), table_columns)
                  ELSE Raises(r)

get_table_columns(answers) == get_table_columns_from(answers, << >>)

\* _get_current_pks: the column_name of each row of SHOW PRIMARY KEYS
get_current_pks(answer) ==
    LET r == query(answer, 0)
    IN  IF r.kind = "rows" THEN Returned({r.rows[i] : i \in DOMAIN r.rows})
        ELSE IF Caught("_get_current_pks", r) THEN Returned({})
        ELSE Raises(r)

\* create_schema_if_not_exists without a table cache: SHOW SCHEMAS LIKE
show_schemas(answer) ==
    LET r == query(answer, 0)
    IN  IF r.kind = "rows" THEN Returned(r.rows) ELSE Raises(r)

\* the rows of a result of rowcount rows for the i-th schema of the call
RowsFor(i, rowcount) == IF rowcount = 0 THEN << >> ELSE << [schema |-> i, rowcount |-> rowcount] >>

\* the answers for the i-th schema
Answers(i) == {Rows(n, RowsFor(i, n)) : n \in RowCounts} \cup WarehouseErrors

\* the lists of one or two schemas, with the warehouse's answer for each
AnswerLists == {<< a >> : a \in Answers(1)} \cup {<< a, b >> : a \in Answers(1), b \in Answers(2)}

InitCatalog ==
    /\ pc = "call"
    /\ \/ \E fn \in {"get_tables", "get_table_columns"}, answers \in AnswerLists :
             call = Some([fn |-> fn, answers |-> answers, result |-> None])
       \/ \E fn \in {"_get_current_pks", "show_schemas"}, answer \in Answers(1) :
             call = Some([fn |-> fn, answers |-> << answer >>, result |-> None])
    /\ NoRun

GetTables == Return("get_tables", get_tables(call[1].answers))
GetTableColumns == Return("get_table_columns", get_table_columns(call[1].answers))
GetCurrentPks == Return("_get_current_pks", get_current_pks(call[1].answers[1]))
ShowSchemas == Return("show_schemas", show_schemas(call[1].answers[1]))

NextCatalog == GetTables \/ GetTableColumns \/ GetCurrentPks \/ ShowSchemas

SpecCatalog == InitCatalog /\ [][NextCatalog]_vars

\* ------------------------------------------------------------------ _refresh_table_pks
\* _refresh_table_pks on a table whose declared primary key the warehouse
\* reports (or fails to report), for a schema with the given key_properties
PkColumns == {"c_pk", "c_date", "c_int"}

\* a list of the elements of a set
RECURSIVE ListOf(_)
ListOf(set) ==
    IF set = {} THEN << >>
    ELSE LET x == CHOOSE y \in set : TRUE IN << x >> \o ListOf(set \ {x})

\* the lists of the elements of a set, in every order
RECURSIVE Orders(_)
Orders(set) ==
    IF set = {} THEN {<< >>}
    ELSE UNION {{<< x >> \o rest : rest \in Orders(set \ {x})} : x \in set}

\* set(pk.upper() for pk in key_properties)
new_pks(key_properties) == {Upper(key_properties[i]) : i \in DOMAIN key_properties}

Statement(op, columns) == [op |-> op, columns |-> columns]

PksDifferNever(current_pks, new) == FALSE

\* `new_pks != current_pks`
PksDiffer(current_pks, new) == new # current_pks

\* the statements on the primary key: drop it, add it, or neither
PrimaryKeyQueries(current_pks, new) ==
    IF new = {} /\ current_pks # {}
    THEN << Statement("drop primary key", {}) >>
    ELSE IF PksDiffer(current_pks, new)
         THEN (IF current_pks # {} THEN << Statement("drop primary key", {}) >> ELSE << >>)
              \o << Statement("add primary key", new) >>
         ELSE << >>

\* `alter column ... drop not null` for each column of the list
DropNotNull(columns) == [i \in DOMAIN columns |-> Statement("drop not null", {columns[i]})]

\* _refresh_table_pks: the statements it runs in one transaction; `order` is
\* the order in which the set current_pks.union(new_pks) is iterated
refresh_table_pks(answer, key_properties, order) ==
    LET current_pks == get_current_pks(answer)
    IN  IF current_pks.raised THEN current_pks
        ELSE Returned(PrimaryKeyQueries(current_pks.value, new_pks(key_properties))
                      \o DropNotNull(order))

\* the key_properties: up to three column names, in any order
KeyProperties == UNION {Orders(names) : names \in SUBSET PkColumns}

\* the answers to SHOW PRIMARY KEYS: one row per column of the key, or an error
PrimaryKeyAnswers ==
    {Rows(Cardinality(names), ListOf({Upper(n) : n \in names})) : names \in SUBSET PkColumns}
    \cup WarehouseErrors

InitPks ==
    /\ pc = "call"
    /\ \E answer \in PrimaryKeyAnswers, key_properties \in KeyProperties :
          call = Some([fn |-> "_refresh_table_pks", answer |-> answer,
                       key_properties |-> key_properties, result |-> None])
    /\ NoRun

RefreshTablePks ==
    LET current_pks == get_current_pks(call[1].answer)
    IN  \E order \in Orders(IF current_pks.raised THEN {}
                             ELSE current_pks.value \cup new_pks(call[1].key_properties)) :
          Return("_refresh_table_pks",
                 refresh_table_pks(call[1].answer, call[1].key_properties, order))

SpecPks == InitPks /\ [][RefreshTablePks]_vars

\* ------------------------------------------------------------------ record_primary_key_string
\* record_primary_key_string on records with one or two key properties; a
\* string is the list of its characters
KeyNames == << "k1", "k2" >>
KeyValues == {<< "a" >>, << "b" >>, << "a", ",", "b" >>, << "b", ",", "a" >>}

\* ','.join(key_props)
RECURSIVE join(_, _)
join(sep, strings) ==
    IF strings = << >> THEN << >>
    ELSE IF Len(strings) = 1 THEN strings[1]
    ELSE strings[1] \o sep \o join(sep, Tail(strings))

\* key_props: str(flatten[key_prop]) for each key property, in order
key_props(key_properties, flatten) == [i \in DOMAIN key_properties |-> flatten[key_properties[i]]]

\* record_primary_key_string of a record that holds a string for every key property
primary_key_string(key_properties, flatten) ==
    join(<< "," >>, key_props(key_properties, flatten))

InitKeys ==
    /\ pc = "call"
    /\ \E n \in 1..Len(KeyNames), records \in [1..2 -> [SetOf(KeyNames) -> KeyValues]] :
          call = Some([fn |-> "record_primary_key_string", key_properties |-> SubSeq(KeyNames, 1, n),
                       records |-> records, result |-> None])
    /\ NoRun

RecordPrimaryKeyString ==
    Return("record_primary_key_string",
           [i \in 1..2 |-> primary_key_string(call[1].key_properties, call[1].records[i])])

SpecKeys == InitKeys /\ [][RecordPrimaryKeyString]_vars

\* ------------------------------------------------------------------ load_via_snowpipe
\* load_via_snowpipe from its first ingest_files call on: pc is "ingest" in
\* the retry loop, "history" in the polling loop, "raised" or "exited" when
\* the process is stopped, "returned" after the pipe is dropped
MaxAttempts == 7
MaxPolls == 2
DefaultMaxRetry == 5

\* the configured max_retry: a number, or None when the key is not set
MaxRetries == {Some(n) : n \in -1..2} \cup {None}

\* connection_config.get('max_retry', 5)
max_retry(option) == IF option = None THEN DefaultMaxRetry ELSE option[1]

\* `if not retries`
NoRetriesLeft(retries) == retries = 0

InitSnowpipe ==
    /\ pc = "ingest"
    /\ \E option \in MaxRetries :
          call = Some([fn |-> "load_via_snowpipe", max_retry |-> option,
                       retries |-> max_retry(option), attempts |-> 0, ingested |-> FALSE,
                       polls |-> 0, dropped |-> FALSE, result |-> None])
    /\ NoRun

SnowpipeStep(at, to, locals) ==
    /\ pc = at
    /\ call # None
    /\ call[1].fn = "load_via_snowpipe"
    /\ pc' = to
    /\ call' = Some(locals)
    /\ UNCHANGED <<table_cache, pool, config, lines, n_state, n_record, schemas, stream_to_sync,
                   records_to_load, row_count, total_row_count, state, flushed_state, emitted,
                   loads, tables, rounds, last>>

\* ingest_files raises HTTPError: sleep, one retry less; with no retry left
\* the handler calls self.logger.critcal, a method the logger does not have,
\* so AttributeError is raised before sys.exit(1)
IngestFails ==
    /\ call # None
    /\ call[1].fn = "load_via_snowpipe"
    /\ call[1].attempts < MaxAttempts
    /\ LET retries == call[1].retries - 1
           locals == [call[1] EXCEPT !.attempts = @ + 1, !.retries = retries]
       IN  IF NoRetriesLeft(retries)
           THEN SnowpipeStep("ingest", "raised", [locals EXCEPT !.result = Some("AttributeError")])
           ELSE SnowpipeStep("ingest", "ingest", locals)

\* ingest_files returns: leave the retry loop
IngestSucceeds ==
    /\ call # None
    /\ call[1].fn = "load_via_snowpipe"
    /\ call[1].attempts < MaxAttempts
    /\ SnowpipeStep("ingest", "history",
                    [call[1] EXCEPT !.attempts = @ + 1, !.ingested = TRUE])

\* get_history reports no file yet: sleep and ask again
HistoryEmpty ==
    /\ call # None
    /\ call[1].fn = "load_via_snowpipe"
    /\ call[1].polls < MaxPolls
    /\ SnowpipeStep("history", "history", [call[1] EXCEPT !.polls = @ + 1])

\* get_history reports the file: drop the pipe and return
HistoryFiles ==
    /\ call # None
    /\ call[1].fn = "load_via_snowpipe"
    /\ SnowpipeStep("history", "returned",
                    [call[1] EXCEPT !.polls = @ + 1, !.dropped = TRUE, !.result = Some("None")])

NextSnowpipe == IngestFails \/ IngestSucceeds \/ HistoryEmpty \/ HistoryFiles

SpecSnowpipe == InitSnowpipe /\ [][NextSnowpipe]_vars

\* ------------------------------------------------------------------ validate_config
s3_required_config_keys ==
    << "account", "dbname", "user", "password", "warehouse", "s3_bucket", "stage",
       "file_format" >>
snowflake_required_config_keys ==
    << "account", "dbname", "user", "password", "warehouse", "file_format" >>

\* the values a key of config.json is given here: a string, an empty string,
\* False, True, a mapping, an empty mapping
FalsyValues == {"", "False", "{}"}

\* `config.get(k, None)` as a condition
Truthy(cfg, k) == k \in DOMAIN cfg /\ cfg[k] \notin FalsyValues

RequiredKeysNone(cfg) == << >>

\* validate_config: the keys required by the staging mode
RequiredKeys(cfg) ==
    IF Truthy(cfg, "s3_bucket") /\ Truthy(cfg, "stage") THEN s3_required_config_keys
    ELSE IF ~Truthy(cfg, "s3_bucket") /\ ~Truthy(cfg, "stage")
         THEN snowflake_required_config_keys
    ELSE << >>

\* the loop over the required keys: one error for each missing key
RECURSIVE MissingKeys(_, _)
MissingKeys(cfg, keys) ==
    IF keys = << >> THEN << >>
    ELSE (IF Truthy(cfg, Head(keys)) THEN << >> ELSE << "missing: " \o Head(keys) >>)
         \o MissingKeys(cfg, Tail(keys))

\* validate_config(config): the list of errors
validate_config(cfg) ==
    (IF Truthy(cfg, "s3_bucket") = Truthy(cfg, "stage") THEN << >>
     ELSE << "only one of s3_bucket, stage" >>)
    \o MissingKeys(cfg, RequiredKeys(cfg))
    \o (IF ~Truthy(cfg, "default_target_schema") /\ ~Truthy(cfg, "schema_mapping")
        THEN << "no target schema" >> ELSE << >>)
    \o (IF Truthy(cfg, "archive_load_files") /\ ~Truthy(cfg, "s3_bucket")
        THEN << "archive_load_files without s3_bucket" >> ELSE << >>)

\* the keys of the configurations and the values each is given; "<no key>"
\* leaves the key out
StringKeys == {"account", "dbname", "user", "password", "warehouse"}
StringValues == {"<no key>", "dummy-value"}
OptionKeys == {"file_format", "s3_bucket", "stage", "default_target_schema"}
OptionValues == {"<no key>", "", "dummy-value"}
MappingValues == {"<no key>", "{}", "{dummy_stream}"}
BooleanValues == {"<no key>", "False", "True"}

\* the dict with the keys that are given a value
ConfigOf(f) == [k \in {x \in DOMAIN f : f[x] # "<no key>"} |-> f[k]]

InitValidate ==
    /\ pc = "call"
    /\ \E f1 \in [StringKeys -> StringValues], f2 \in [OptionKeys -> OptionValues],
          sm \in MappingValues, al \in BooleanValues :
          call = Some([fn |-> "validate_config",
                       config |-> ConfigOf(
                           [k \in StringKeys \cup OptionKeys
                                    \cup {"schema_mapping", "archive_load_files"} |->
                              IF k \in StringKeys THEN f1[k]
                              ELSE IF k \in OptionKeys THEN f2[k]
                              ELSE IF k = "schema_mapping" THEN sm ELSE al]),
                       result |-> None])
    /\ NoRun

ValidateConfig == Return("validate_config", validate_config(call[1].config))

SpecValidate == InitValidate /\ [][ValidateConfig]_vars

\* ------------------------------------------------------------------ claims
PersistLines == pc \in {"read", "done", "aborted"}

\* the bookmark of stream s in a checkpoint: None when there is none
BookmarkOf(x, s) ==
    IF x = None \/ s \notin DOMAIN Bookmarks(x[1].d) THEN None
    ELSE Some(x[1].d["bookmarks"][s])

\* the last step wrote a line to stdout
Emitted == Len(emitted) > last.pre.emitted

\* the records of stream s that are still only in its bucket
Buffered(s) == IF s \in DOMAIN records_to_load THEN Range(records_to_load[s]) ELSE {}

\* C1: whenever a checkpoint is emitted that carries, for a stream S, the
\* bookmark of STATE message m, no record of S received before m is still only
\* in S's bucket: emission never runs ahead of the warehouse load.
C1_EmissionAfterLoad ==
    (PersistLines /\ Emitted) =>
        LET e == emitted[Len(emitted)]
        IN  \A s \in DOMAIN Bookmarks(e) :
                \A rec \in Buffered(s) : rec.after >= e["bookmarks"][s]

\* the flushed checkpoint's bookmark for stream s changed in the last step
BookmarkChanged(s) == BookmarkOf(flushed_state, s) # BookmarkOf(last.pre.flushed_state, s)

\* the last step ran a flush round that returned normally
RoundDone == last.round # "none" /\ last.ok

\* the last step ran a flush round that raised
RoundFailed == last.round # "none" /\ ~last.ok

WorkerFailed == \E s \in DOMAIN last.out : last.out[s] \in Failing

\* C3: if a worker of a flush round fails, the error leaves flush_streams and
\* ends persist_lines: the round emits nothing, the flushed checkpoint keeps its
\* value for every stream (also for those whose worker ran to its end), and
\* nothing runs afterwards (no retry, no later flush or emission).
C3_FailedRoundAborts ==
    /\ WorkerFailed =>
         /\ RoundFailed
         /\ pc \in {"aborted", "h_failed"}
         /\ flushed_state = last.pre.flushed_state
         /\ ~Emitted
    /\ pc \in {"aborted", "h_failed"} => ~ENABLED Next

\* C3 witness: a round of two workers, one ran to its end (its load is in the
\* warehouse, its counter is reset) and one raised; the latest-seen checkpoint
\* has a bookmark for the finished stream that the flushed one has not
C3_Witness ==
    /\ pc = "aborted"
    /\ WorkerFailed
    /\ \E s \in last.flushed :
         /\ last.pre.row_count[s] > 0
         /\ row_count[s] = 0
         /\ \E l \in loads \ last.pre.loads : l.stream = s
         /\ BookmarkOf(state, s) # None
         /\ BookmarkOf(state, s) # BookmarkOf(flushed_state, s)

\* the loads of stream s that hold the record rec
LoadsOf(s, rec) == {l \in loads : l.stream = s /\ rec \in l.rows}

\* the bucket entries the last step removed (cleared, not overwritten)
Dropped(s) ==
    IF s \notin DOMAIN last.pre.records_to_load THEN {}
    ELSE {last.pre.records_to_load[s][k] :
            k \in DOMAIN last.pre.records_to_load[s] \ DOMAIN records_to_load[s]}

\* C4: in a run that ends normally every bucket entry is part of exactly one
\* warehouse load: no entry is loaded by two loads, no entry leaves a bucket
\* without having been loaded, and none is left in a bucket at the end.
C4_EachEntryLoadedOnce ==
    /\ \A l1, l2 \in loads :
         (l1 # l2 /\ l1.stream = l2.stream) => l1.rows \cap l2.rows = {}
    /\ pc \notin {"aborted", "h_failed"} =>
         \A s \in Streams : \A rec \in Dropped(s) : Cardinality(LoadsOf(s, rec)) = 1
    /\ pc = "done" => \A s \in Streams : Buffered(s) = {}

\* C4 witness: a normal end after two flush rounds of the same stream, one of
\* them with two entries
C4_Witness ==
    /\ pc = "done"
    /\ \E l1, l2 \in loads :
         l1 # l2 /\ l1.stream = l2.stream /\ Cardinality(l1.rows) = 2

\* C5: after a flush round has returned normally, every stream of the round
\* has an empty bucket and a row counter of 0.
C5_FlushedStreamsAreEmpty ==
    RoundDone =>
        \A s \in last.flushed : DOMAIN records_to_load[s] = {} /\ row_count[s] = 0

\* C5 witness: a round of two streams, both with buffered records
C5_Witness ==
    /\ PersistLines
    /\ RoundDone
    /\ Cardinality(last.flushed) = 2
    /\ \A s \in last.flushed : last.pre.row_count[s] > 0

\* the last step was a RECORD line whose key was in the bucket already
Duplicate ==
    /\ last.op = "record"
    /\ last.stream \in DOMAIN last.pre.records_to_load
    /\ last.key \in DOMAIN last.pre.records_to_load[last.stream]

\* C6: a RECORD whose key is in the bucket already overwrites the buffered
\* record and increments neither counter; a RECORD with a new key increments
\* both. Hence 3 records with the same id and batch_size_rows = 100 give one
\* load of one row, the last record, in the only round, at the end of input.
C6_LastWriteWins ==
    /\ Duplicate =>
         LET s == last.stream
         IN  /\ row_count = last.pre.row_count
             /\ total_row_count = last.pre.total_row_count
             /\ last.round = "none"
             /\ DOMAIN records_to_load[s] = DOMAIN last.pre.records_to_load[s]
             /\ \A k \in DOMAIN records_to_load[s] :
                  records_to_load[s][k] = IF k = last.key
                                          THEN RecordOf(k, NRecord(s), n_state)
                                          ELSE last.pre.records_to_load[s][k]
    /\ (last.op = "record" /\ ~Duplicate) =>
         /\ total_row_count[last.stream] = last.pre.total_row_count[last.stream] + 1
         /\ last.round = "none" => row_count[last.stream] = last.pre.row_count[last.stream] + 1
    /\ \A r \in RecordInputs :
         ( /\ pc = "done"
           /\ config.batch_size_rows = 100
           /\ DOMAIN schemas = {r[1]}
           /\ schemas[r[1]] = 1
           /\ n_record[r] = 3
           /\ NRecord(r[1]) = 3 ) =>
             /\ Len(rounds) = 1
             /\ rounds[1].trigger = "eof"
             /\ Cardinality(loads) = 1
             /\ \A l \in loads :
                  /\ l.stream = r[1] /\ l.round = 1
                  /\ Cardinality(l.rows) = 1
                  /\ \A row \in l.rows : row.id = r[2] /\ row.n = 3

\* C6 witness: SCHEMA, then 3 RECORD lines with the same id, batch_size_rows = 100
C6_Witness ==
    /\ pc = "done"
    /\ config.batch_size_rows = 100
    /\ lines = 4
    /\ n_record[<<"s1", "a">>] = 3
    /\ Cardinality(loads) = 1

\* the part of a checkpoint outside "bookmarks"
NonBookmarks(x) ==
    IF x = None THEN None
    ELSE Some([k \in DOMAIN x[1].d \ {"bookmarks"} |-> x[1].d[k]])

\* C7: a flush round restricted to given streams changes at most the bookmarks
\* of those streams in the flushed checkpoint: a flushed stream's bookmark
\* becomes its bookmark in the latest-seen checkpoint if that has one and stays
\* as it is otherwise; every other bookmark and every other key stays as it is.
C7_FilteredRoundCopiesOneBookmark ==
    (RoundDone /\ last.round = "filtered") =>
        /\ \A s \in Streams :
             BookmarkOf(flushed_state, s) =
                 IF s \in last.flushed /\ BookmarkOf(state, s) # None
                 THEN BookmarkOf(state, s)
                 ELSE BookmarkOf(last.pre.flushed_state, s)
        /\ NonBookmarks(flushed_state) = NonBookmarks(last.pre.flushed_state)
        /\ state = last.pre.state

\* C7 witness: a round for one stream copies its bookmark and leaves the other
\* stream's bookmark and currently_syncing behind the latest-seen checkpoint
C7_Witness ==
    /\ PersistLines
    /\ RoundDone
    /\ last.round = "filtered"
    /\ \E s \in last.flushed : BookmarkChanged(s)
    /\ \E t \in Streams \ last.flushed :
         BookmarkOf(state, t) \notin {None, BookmarkOf(flushed_state, t)}
    /\ NonBookmarks(state) # NonBookmarks(flushed_state)

\* C8: after a flush round of all streams the flushed checkpoint has the
\* value of the latest-seen checkpoint and is an independent copy of it.
C8_UnfilteredRoundDeepCopies ==
    (RoundDone /\ last.round = "unfiltered") =>
        /\ Value(flushed_state) = Value(state)
        /\ Independent(flushed_state, state)
        /\ state = last.pre.state

\* C8 witness: a threshold flush of all streams replaces a flushed checkpoint
\* that was behind the latest-seen one, bookmarks of unflushed streams included
C8_Witness ==
    /\ RoundDone
    /\ last.round = "unfiltered"
    /\ last.op = "record"
    /\ Value(last.pre.flushed_state) # Value(state)
    /\ \E t \in Streams \ last.flushed : BookmarkChanged(t)

\* the loads the last step made for stream s
NewLoads(s) == {l \in loads \ last.pre.loads : l.stream = s}

\* at the end of input every stream with buffered records was loaded once,
\* the others not at all, and every bucket and row counter is empty
FinalFlush ==
    /\ \A s \in DOMAIN last.pre.row_count :
         Cardinality(NewLoads(s)) = IF last.pre.row_count[s] > 0 THEN 1 ELSE 0
    /\ \A s \in Streams : \A l \in NewLoads(s) :
         l.rows = Range(last.pre.records_to_load[s])
    /\ \A s \in Streams : Buffered(s) = {}
    /\ \A s \in DOMAIN row_count : row_count[s] = 0

\* C9 (as claimed): at the end of input every stream with buffered records is
\* flushed exactly once, streams with a row count of zero are not loaded, one
\* final line with the flushed checkpoint is emitted, and all is empty.
C9_FinalCheckpointAlways ==
    pc = "done" =>
        /\ FinalFlush
        /\ Len(emitted) = last.pre.emitted + 1
        /\ flushed_state # None
        /\ emitted[Len(emitted)] = flushed_state[1].d

\* C9 (amended): as above, but the final line is emitted only if the flushed
\* checkpoint is not None, that is if some STATE line was received.
C9_FinalCheckpointIfAny ==
    pc = "done" =>
        /\ FinalFlush
        /\ IF flushed_state = None
           THEN Len(emitted) = last.pre.emitted /\ n_state = 0
           ELSE /\ Len(emitted) = last.pre.emitted + 1
                /\ emitted[Len(emitted)] = flushed_state[1].d
                /\ n_state > 0

\* C9 witness: the final round loads one stream, skips a stream whose row
\* count is zero, and the final checkpoint line is written
C9_Witness ==
    /\ pc = "done"
    /\ last.round = "unfiltered"
    /\ \E s \in last.flushed : last.pre.row_count[s] > 0
    /\ \E t \in last.flushed : last.pre.row_count[t] = 0
    /\ flushed_state # None
    /\ Emitted

\* the last step was a SCHEMA line for a stream with buffered records
SchemaFlush == PersistLines /\ last.op = "schema" /\ RoundDone

SameSchemaLine ==
    /\ last.op = "schema"
    /\ last.stream \in DOMAIN last.pre.stream_to_sync
    /\ schemas[last.stream] = last.pre.schemas[last.stream]

\* C11 (as claimed): a SCHEMA line whose schema is the one stored for the
\* stream runs no flush round, does not touch the table and resets no counter;
\* so an input with one schema per stream, repeated between its records, that
\* never reaches batch_size_rows has exactly one flush round, at end of input.
C11_SameSchemaIsNoOp ==
    /\ SameSchemaLine =>
         /\ last.round = "none"
         /\ loads = last.pre.loads
         /\ row_count = last.pre.row_count
         /\ total_row_count = last.pre.total_row_count
    /\ ( /\ pc = "done"
         /\ config.batch_size_rows = 100
         /\ \A s \in DOMAIN schemas : schemas[s] = 1
         /\ \E s \in DOMAIN schemas : NRecord(s) > 0 ) =>
           /\ Len(rounds) = 1
           /\ rounds[1].trigger = "eof"

\* the last step was a SCHEMA line, for a stream with buffered records, that
\* changed the column from `from` to `to`; its flush went well
TypeChange(from, to) ==
    /\ SchemaFlush
    /\ pc = "read"
    /\ last.pre.stream_to_sync[last.stream].type = from
    /\ DataType(last.pre.tables[last.stream]) = column_type(from)
    /\ stream_to_sync[last.stream].type = to
    /\ schemas[last.stream] # last.pre.schemas[last.stream]

\* C12 (as claimed): a SCHEMA line that changes a column from text to
\* timestamp, for a stream with buffered records, (1) loads those records once,
\* with the old schema, (2) versions the table's column and adds it with the
\* new type, and (3) leaves the new schema in place for the records to come.
C12_TextToTimestampIsVersioned ==
    TypeChange("string", "date-time") =>
        LET S == last.stream
        IN  /\ NewLoads(S) = {[stream |-> S, rows |-> Range(last.pre.records_to_load[S]),
                               schema |-> last.pre.stream_to_sync[S].schema,
                               round |-> Len(rounds)]}
            /\ tables[S] = last.pre.tables[S] \o
                             << [op |-> "version", type |-> "text"],
                                [op |-> "add", type |-> "timestamp_ntz"] >>
            /\ stream_to_sync[S].schema = schemas[S]
            /\ DOMAIN records_to_load[S] = {}

\* persist_lines has returned and every line of its input was a STATE line
OnlyStateLines == pc = "done" /\ n_state >= 1 /\ lines = n_state

\* C13 (as claimed): on an input of STATE lines only, persist_lines runs no
\* flush round and emits exactly one checkpoint, the value of the last STATE line.
C13_OnlyStatesEmitLast ==
    OnlyStateLines =>
        /\ rounds = << >>
        /\ Len(emitted) = 1
        /\ Some(emitted[1]) = Value(state)

\* persist_lines has returned; records were buffered when the input ended, no
\* flush round had run before, and at least one STATE line was received
NoIntermediateFlush ==
    /\ pc = "done"
    /\ \E s \in DOMAIN last.pre.records_to_load : DOMAIN last.pre.records_to_load[s] # {}
    /\ \A i \in DOMAIN rounds : rounds[i].trigger = "eof"
    /\ n_state >= 1

\* C14: if records are buffered and no flush round runs before the end of the
\* input, then (given that a STATE line was received) the state is emitted
\* exactly once, by the last step, and its value is that of the latest STATE line.
C14_OneEmissionOfLatestState ==
    NoIntermediateFlush =>
        /\ Len(emitted) = 1
        /\ Emitted
        /\ Some(emitted[1]) = Value(state)

\* C14 witness: two STATE lines were received, the flushed checkpoint held the
\* first one until the flush at the end of the input
C14_Witness ==
    /\ NoIntermediateFlush
    /\ n_state >= 2
    /\ last.pre.flushed_state # None
    /\ Value(last.pre.flushed_state) # Value(state)
    /\ Len(rounds) = 1

\* the rows the warehouse has loaded
Loaded == UNION {l.rows : l \in loads}

\* persist_lines has returned; batch_size_rows is 1 and the input was one
\* SCHEMA line and 3 RECORD lines with distinct ids, among STATE lines
ThreeRecords ==
    /\ pc = "done"
    /\ config.batch_size_rows = 1
    /\ DOMAIN schemas = {"s1"}
    /\ schemas["s1"] = 1
    /\ n_record = [r \in BatchOneRecords |-> 1]

\* C15 (as claimed): with batch_size_rows = 1, 3 records with distinct ids of
\* one stream, received after a STATE line, make exactly 3 flush rounds and
\* exactly 3 emissions.
C15_ThreeRoundsThreeEmissions ==
    (ThreeRecords /\ \A row \in Loaded : row.after >= 1) =>
        /\ Len(rounds) = 3
        /\ Len(emitted) = 3

\* C15 (amended): there are exactly 3 flush rounds, one per record, each for
\* that stream's one record; each round is followed by an emission if a STATE
\* line was received before it, and the end of the input adds one emission that
\* repeats the last one; without flush_all_streams a round changes no other
\* stream's bookmark and no other key of the flushed checkpoint.
C15_ThreeRoundsAndFinalEmission ==
    /\ ThreeRecords =>
         /\ Len(rounds) = 3
         /\ \A i \in DOMAIN rounds : rounds[i].trigger = "threshold" /\ rounds[i].streams = {"s1"}
         /\ Cardinality(loads) = 3
         /\ \A l \in loads : Cardinality(l.rows) = 1
         /\ Len(emitted) = Cardinality({row \in Loaded : row.after >= 1})
                             + (IF n_state >= 1 THEN 1 ELSE 0)
         /\ Len(emitted) >= 2 => emitted[Len(emitted)] = emitted[Len(emitted) - 1]
    /\ (last.op = "record" /\ RoundDone /\ ~config.flush_all_streams) =>
         /\ \A t \in Streams \ {last.stream} : ~BookmarkChanged(t)
         /\ NonBookmarks(flushed_state) = NonBookmarks(last.pre.flushed_state)

\* C15 witness: a STATE line before the first record and one between the
\* records: 3 rounds, 4 emissions, the first and the third differ
C15_Witness ==
    /\ ThreeRecords
    /\ ~config.flush_all_streams
    /\ \A row \in Loaded : row.after >= 1
    /\ Len(rounds) = 3
    /\ Len(emitted) = 4
    /\ emitted[1] # emitted[3]

\* the last step was a RECORD line of a stream declared with key_properties []
RecordWithoutKey ==
    /\ last.op = "record"
    /\ last.pre.stream_to_sync[last.stream].key_properties = << >>

\* C16: a record of a stream without key properties gets the key RID-n, n the
\* number of records the stream has received since its last SCHEMA line; the
\* key is not in the bucket yet, the record is added under it and both counters
\* are incremented; a SCHEMA line restarts the numbering at 0.
C16_SyntheticKeys ==
    /\ RecordWithoutKey =>
         LET s == last.stream
         IN  /\ last.key = RID(last.pre.total_row_count[s])
             /\ ~Duplicate
             /\ total_row_count[s] = last.pre.total_row_count[s] + 1
             /\ last.round = "none" =>
                  /\ row_count[s] = last.pre.row_count[s] + 1
                  /\ DOMAIN records_to_load[s] =
                       (IF s \in DOMAIN last.pre.records_to_load
                        THEN DOMAIN last.pre.records_to_load[s] ELSE {}) \cup {last.key}
                  /\ records_to_load[s][last.key].n = NRecord(s)
                  /\ Cardinality(DOMAIN records_to_load[s]) = row_count[s]
             /\ lines = 1 + NRecord(s) + n_state => last.key = RID(NRecord(s) - 1)
    /\ (last.op = "schema" /\ pc = "read") =>
         /\ total_row_count[last.stream] = 0
         /\ row_count[last.stream] = 0
         /\ DOMAIN records_to_load = {} \/ DOMAIN records_to_load[last.stream] = {}

\* C16 witness: the third record after the SCHEMA line gets RID-2 although the
\* bucket was flushed after the second
C16_Witness ==
    /\ RecordWithoutKey
    /\ last.key = "RID-2"
    /\ last.round = "none"
    /\ DOMAIN records_to_load[last.stream] = {"RID-2"}
    /\ \E l \in loads : Cardinality(l.rows) = 2

\* the last step ran a flush round that included stream s, whose bucket was
\* empty and whose row counter was 0
EmptyFlush(s) ==
    /\ last.round # "none"
    /\ s \in last.flushed
    /\ s \in DOMAIN last.pre.records_to_load
    /\ DOMAIN last.pre.records_to_load[s] = {}
    /\ last.pre.row_count[s] = 0

\* C17: flushing a stream whose bucket is empty and whose row counter is 0
\* makes no warehouse call for it and leaves its bucket and counters as they
\* are; while lines are read, a row counter is 0 exactly if the bucket is empty.
C17_EmptyFlushIsNoOp ==
    /\ \A s \in Streams :
         EmptyFlush(s) =>
           /\ NewLoads(s) = {}
           /\ s \notin DOMAIN last.out
           /\ DOMAIN records_to_load[s] = {}
           /\ row_count[s] = 0
           /\ total_row_count[s] = last.pre.total_row_count[s]
    /\ pc \in {"read", "h_ready"} =>
         \A s \in DOMAIN records_to_load :
           row_count[s] = Cardinality(DOMAIN records_to_load[s])

\* C17 witness: a round of two streams loads one and finds the other empty
C17_Witness ==
    /\ PersistLines
    /\ RoundDone
    /\ \E s \in last.flushed : EmptyFlush(s) /\ last.pre.total_row_count[s] > 0
    /\ \E t \in last.flushed : NewLoads(t) # {}

\* C18: when no external staging bucket is configured (table stage), every flush
\* round runs with an effective parallelism of 1 whatever the configured
\* parallelism, so no two uploads to a table stage are in progress at once.
C18_TableStageOneWorker ==
    (pool # None /\ UploadClient(config) = "table_stage") =>
        /\ pool[1].n_jobs = 1
        /\ Cardinality(Uploading(pool[1].workers)) <= 1

Writes == {a \in pool[1].access : a.kind = "write"}

\* C20: in a flush round no worker thread writes a bucket, no two workers write
\* the same shared variable, and the dispatcher resets the buckets of the
\* flushed streams only when no worker of the round is running, so the buckets
\* a worker reads are the ones the round was called with.
C20_OnlyDispatcherWritesBuckets ==
    pool # None =>
        /\ \A a \in Writes :
             a.var = "bucket" => a.by = "dispatcher" /\ a.running = {}
        /\ \A a, b \in Writes :
             (a.by # "dispatcher" /\ b.by # "dispatcher" /\ a.by # b.by)
                => <<a.var, a.stream>> # <<b.var, b.stream>>
        /\ InProgress(pool[1].workers) # {} =>
             records_to_load = last.pre.records_to_load

\* C20 witness: two workers have loaded their buckets and reset their row
\* counters, and the dispatcher has emptied both buckets
C20_Witness ==
    /\ pc = "f_done"
    /\ Cardinality({a.by : a \in {w \in Writes : w.var = "row_count"}}) = 2
    /\ \A s \in Streams :
         \E a \in Writes : a.by = "dispatcher" /\ a.var = "bucket" /\ a.stream = s
    /\ \A s \in Streams : records_to_load[s] = EmptyDict /\ last.pre.records_to_load[s] # EmptyDict

\* the step was a line that raised a protocol error
ProtocolErrorStep == last.op = "error"

\* C21: a line that is not JSON, has no 'type', is a RECORD or SCHEMA without
\* 'stream', is a RECORD for a stream without a schema, or has an unknown type
\* aborts persist_lines: the line buffers no record, changes neither checkpoint,
\* nothing is flushed or emitted, and no step follows the abort.
C21_ProtocolErrorAborts ==
    /\ [](ProtocolErrorStep =>
            /\ pc = "aborted"
            /\ records_to_load = last.pre.records_to_load
            /\ row_count = last.pre.row_count
            /\ total_row_count = last.pre.total_row_count
            /\ state = last.pre.state
            /\ flushed_state = last.pre.flushed_state
            /\ loads = last.pre.loads
            /\ Len(emitted) = last.pre.emitted)
    /\ [][pc # "aborted"]_vars

\* C21 witness: an unknown message type arrives while a record is buffered and
\* a state is pending
C21_Witness ==
    /\ ProtocolErrorStep
    /\ last.key = "unknown_type"
    /\ Sum(row_count) > 0
    /\ state # None
    /\ state # flushed_state

\* the last step was a SCHEMA line whose flush, if it had one, went well
SchemaStep == last.op = "schema" /\ last.ok

\* the SCHEMA line of the last step has no key_properties, or an empty list
\* while primary_key_required is set
KeyPropertiesRejected ==
    \/ last.key = ToString(Absent)
    \/ (last.key = ToString(<< >>) /\ config.primary_key_required)

\* C22: a SCHEMA line without key_properties, or with an empty list while
\* primary_key_required is true, aborts the run before a DbSync is created and
\* before any DDL for the schema; with primary_key_required false an empty
\* list is accepted and the stream's table is synchronized.
C22_KeyPropertiesPolicy ==
    SchemaStep =>
        LET s == last.stream
        IN  IF KeyPropertiesRejected
            THEN /\ pc = "aborted"
                 /\ stream_to_sync = last.pre.stream_to_sync
                 /\ tables = last.pre.tables
            ELSE /\ pc = "read"
                 /\ s \in DOMAIN stream_to_sync
                 /\ ToString(stream_to_sync[s].key_properties) = last.key
                 /\ s \in DOMAIN tables
                 /\ tables[s] = sync_table(IF s \in DOMAIN last.pre.tables
                                           THEN last.pre.tables[s] ELSE << >>,
                                           stream_to_sync[s])
                 /\ tables[s] # << >>

\* C22 witness: with primary_key_required false, a stream that has a table and
\* buffered records gets a SCHEMA line without key_properties
C22_Witness ==
    /\ SchemaStep
    /\ last.key = ToString(Absent)
    /\ ~config.primary_key_required
    /\ last.stream \in DOMAIN last.pre.tables
    /\ last.round # "none"
    /\ pc = "aborted"

\* the last step was a RECORD line whose primary key could not be extracted
KeyErrorStep == last.op = "key_error"

\* C23: a record that lacks the declared key property, or holds null for it,
\* raises the primary-key-not-found error, which aborts the run; the record is
\* not added to a bucket and the counters are left as they are, so no bucket
\* and no load ever holds such a record.
C23_PrimaryKeyNotFoundAborts ==
    /\ KeyErrorStep =>
          /\ last.key \in {AbsentId, NullId}
          /\ pc = "aborted"
          /\ records_to_load = last.pre.records_to_load
          /\ row_count = last.pre.row_count
          /\ total_row_count = last.pre.total_row_count
          /\ loads = last.pre.loads
    /\ \A s \in DOMAIN records_to_load : \A k \in DOMAIN records_to_load[s] :
          records_to_load[s][k].id \notin {AbsentId, NullId}
    /\ last.op = "record" => last.key \notin {AbsentId, NullId}

\* C23 witness: a record with a null id arrives for a stream that has a record
\* in its bucket
C23_Witness ==
    /\ KeyErrorStep
    /\ last.key = NullId
    /\ row_count[last.stream] > 0

\* the positions in the round's calls of the calls `ops` made for stream s
CallsOf(s, ops) ==
    {i \in DOMAIN pool[1].calls : pool[1].calls[i].stream = s /\ pool[1].calls[i].op \in ops}

\* the file stream s has put to the stage is still there
Staged(s) == CallsOf(s, {"put"}) # {} /\ CallsOf(s, {"delete_from_stage"}) = {}

\* flush_streams has returned or raised, and no worker thread is running
RoundEnded ==
    /\ pool # None
    /\ pc \in {"f_done", "f_failed"}
    /\ InProgress(pool[1].workers) = {}

\* C24: every file a flush has put to the stage is deleted from it again,
\* whether the bulk load succeeds or fails: no staged file remains when the
\* flush has ended, normally or with an error.
C24_NoStagedFileRemains ==
    RoundEnded => \A s \in Streams : ~Staged(s)

LoadOps == {"merge", "copy"}

\* C25: a DELETE of soft-deleted rows is issued for a stream only with
\* hard_delete set, for a non-empty bucket, once, after the stream's bulk load
\* and the removal of its staged file and before its row counter is reset; with
\* hard_delete set no row counter is reset without it.
C25_HardDeleteAfterLoad ==
    pool # None =>
        \A s \in Streams :
            /\ \A i \in CallsOf(s, {"delete_rows"}) :
                  /\ config.hard_delete
                  /\ last.pre.row_count[s] > 0
                  /\ DOMAIN last.pre.records_to_load[s] # {}
                  /\ CallsOf(s, {"delete_rows"}) = {i}
                  /\ \E j \in CallsOf(s, LoadOps), k \in CallsOf(s, {"delete_from_stage"}) :
                        j < k /\ k < i
                  /\ \A r \in CallsOf(s, {"reset"}) : i < r
            /\ (config.hard_delete /\ CallsOf(s, {"reset"}) # {})
                  => CallsOf(s, {"delete_rows"}) # {}
            /\ CallsOf(s, {"reset"}) # {} <=> (row_count[s] = 0 /\ last.pre.row_count[s] > 0)

\* C25 witness: with hard_delete, two streams were flushed and the round ended well
C25_Witness ==
    /\ RoundEnded
    /\ pc = "f_done"
    /\ config.hard_delete
    /\ \A s \in Streams : CallsOf(s, {"delete_rows"}) # {}

\* C26: a flush of a non-empty bucket issues one bulk load statement, a MERGE
\* if the stream has at least one key property and a COPY if it has none, never
\* both and never more than one; a flush that is not cut short by an error
\* issues it.
C26_OneLoadStatement ==
    pool # None =>
        \A s \in Streams :
            /\ Cardinality(CallsOf(s, LoadOps)) <= 1
            /\ CallsOf(s, {"merge"}) # {} => Len(stream_to_sync[s].key_properties) > 0
            /\ CallsOf(s, {"copy"}) # {} => Len(stream_to_sync[s].key_properties) = 0
            /\ CallsOf(s, LoadOps) # {} => last.pre.row_count[s] > 0
            /\ (WorkerAt(s, {"done"}) /\ last.pre.row_count[s] > 0)
                  => Cardinality(CallsOf(s, LoadOps)) = 1

\* C26 witness: one round has merged into one table and copied into the other
C26_Witness ==
    /\ RoundEnded
    /\ pc = "f_done"
    /\ \E s, t \in Streams : CallsOf(s, {"merge"}) # {} /\ CallsOf(t, {"copy"}) # {}

\* the last step was a BATCH line for a stream that has a schema
BatchStep ==
    /\ last.op = "error"
    /\ last.key = "unknown_type"
    /\ last.stream \in DOMAIN schemas

\* C27: a BATCH line for a stream that has had a SCHEMA line is accepted: it
\* does not abort the run, and the lines after it are read.
C27_BatchIsAccepted ==
    BatchStep => pc = "read"

\* the last step was a RECORD line that arrived more than
\* batch_wait_limit_seconds after the line before it, and so after the last flush
LateRecordStep ==
    /\ last.op = "record"
    /\ "batch_wait_limit_seconds" \in DOMAIN config
    /\ WaitIncrement > config.batch_wait_limit_seconds

\* C28: with batch_wait_limit_seconds configured, a RECORD that arrives after
\* more than that many seconds since the previous flush triggers a flush round
\* although batch_size_rows has not been reached.
C28_LateRecordFlushes ==
    LateRecordStep => last.round # "none"

\* the schema declares the field as a string with a date, time or date-time
\* format, directly or in an anyOf alternative: that format, else ""
DeclaredFormat(properties, key) ==
    IF key \notin DOMAIN properties THEN ""
    ELSE LET fs == {properties[key].decls[i].format : i \in
                      {j \in DOMAIN properties[key].decls :
                         "string" \in properties[key].decls[j].type}} \cap DateFormats
         IN  IF fs = {} THEN "" ELSE CHOOSE f \in fs : TRUE

\* what the record's field is to be after adjust_timestamps_in_record
AdjustedValue(value, format) ==
    IF format = "" \/ value = NoneValue \/ value.v = "2030-01-22" THEN value
    ELSE IF format = "time" THEN StrValue("23:59:59.999999")
    ELSE StrValue("9999-12-31 23:59:59.999999")

\* adjust_timestamps_in_record has returned or raised
Adjusted ==
    /\ pc = "returned"
    /\ call # None
    /\ call[1].fn = "adjust_timestamps_in_record"

\* some field declared as a date, time or date-time holds an integer
IntegerDate ==
    \E k \in DOMAIN call[1].record :
        call[1].record[k].type = "int" /\ DeclaredFormat(call[1].properties, k) # ""

\* C29: adjust_timestamps_in_record replaces a non-null value that does not
\* parse as a date or time, in a field declared as a string of format
\* date-time, date or time (directly or in an anyOf alternative), by
\* '9999-12-31 23:59:59.999999', or '23:59:59.999999' for format time, and leaves
\* every other value as it is; an integer in such a field raises
\* UnexpectedValueTypeException.
C29_AdjustTimestamps ==
    Adjusted =>
        LET c == call[1]
            r == c.result[1]
        IN  IF IntegerDate
            THEN r.raised = "UnexpectedValueTypeException"
            ELSE /\ r.raised = "none"
                 /\ \A k \in DOMAIN c.record :
                       r.record[k] = AdjustedValue(c.record[k], DeclaredFormat(c.properties, k))

\* validate_config has returned
Validated ==
    /\ pc = "returned"
    /\ call # None
    /\ call[1].fn = "validate_config"

\* the key has a value in the configuration that is not empty or False
IsSet(k) == k \in DOMAIN call[1].config /\ call[1].config[k] \notin {"", "False", "{}"}

\* C30: validate_config returns no error exactly when s3_bucket and stage are
\* both set or both unset, every required key of the staging mode is set
\* (account, dbname, user, password, warehouse, file_format, and s3_bucket and
\* stage for external stages), default_target_schema or schema_mapping is set,
\* and archive_load_files is not enabled without s3_bucket; with exactly one of
\* s3_bucket and stage set there is at least one error. A key is set if it has
\* a value that is not empty.
C30_ValidateConfig ==
    Validated =>
        /\ call[1].result[1] = << >> <=>
              /\ IsSet("s3_bucket") <=> IsSet("stage")
              /\ \A k \in {"account", "dbname", "user", "password", "warehouse",
                            "file_format"} : IsSet(k)
              /\ IsSet("default_target_schema") \/ IsSet("schema_mapping")
              /\ ~(IsSet("archive_load_files") /\ ~IsSet("s3_bucket"))
        /\ (IsSet("s3_bucket") # IsSet("stage")) => Len(call[1].result[1]) >= 1

\* C30 witness: an external stage with archive_load_files and a schema mapping
\* only passes
C30_Witness ==
    /\ Validated
    /\ call[1].result[1] = << >>
    /\ IsSet("s3_bucket")
    /\ IsSet("archive_load_files")
    /\ ~IsSet("default_target_schema")

\* C31: a SCHEMA line that is adopted reads, for its stream's table, the
\* columns the table has in the warehouse at that moment, whatever DDL earlier
\* SCHEMA lines of the run have issued; so the DDL it runs is the DDL these
\* columns call for
C31_CacheHoldsEarlierDDL ==
    (SchemaStep /\ pc = "read")
        => LET s == last.stream
           IN  /\ found_tables(table_cache, last.pre.tables, s) = RowsOf(last.pre.tables, s)
               /\ tables[s] = sync_table(RowsOf(last.pre.tables, s), stream_to_sync[s])

\* update_columns has returned its statements
ColumnsUpdated == pc = "returned" /\ call # None /\ call[1].fn = "update_columns"

\* the existing types that are timestamps with a time zone
TimezoneTypes == {"TIMESTAMP_TZ"}

\* the positions of the statements of kind op on the column
StatementsOn(queries, name, op) ==
    {k \in DOMAIN queries : queries[k].name = name /\ queries[k].op = op}

\* C32: update_columns adds every column of the schema that the table lacks;
\* a column whose type differs from the required one is versioned and then
\* added, the rename first; a column is left alone when its type matches, or
\* when the required type is TIMESTAMP_NTZ and the existing type is a
\* timestamp with time zone
C32_UpdateColumns ==
    ColumnsUpdated
        => LET queries == call[1].result[1]
               columns_dict == call[1].columns_dict
               flatten_schema == call[1].flatten_schema
           IN  \A i \in DOMAIN flatten_schema :
                 LET c == flatten_schema[i]
                     required == Upper(column_type(c.type))
                     adds == StatementsOn(queries, c.name, "add")
                     versions == StatementsOn(queries, c.name, "version")
                 IN  CASE Upper(c.name) \notin DOMAIN columns_dict
                            -> Cardinality(adds) = 1 /\ versions = {}
                       [] Upper(c.name) \in DOMAIN columns_dict
                          /\ (\/ columns_dict[Upper(c.name)] = required
                              \/ /\ required = "TIMESTAMP_NTZ"
                                 /\ columns_dict[Upper(c.name)] \in TimezoneTypes)
                            -> adds = {} /\ versions = {}
                       [] OTHER
                            -> /\ Cardinality(adds) = 1
                               /\ Cardinality(versions) = 1
                               /\ \A v \in versions, a \in adds : v < a

\* _refresh_table_pks has run its statements
PksRefreshed ==
    /\ pc = "returned" /\ call # None /\ call[1].fn = "_refresh_table_pks"
    /\ ~call[1].result[1].raised

\* the primary key the table declares before the call
DeclaredPks ==
    IF call[1].answer.kind = "rows"
    THEN {call[1].answer.rows[i] : i \in DOMAIN call[1].answer.rows}
    ELSE {}

\* the primary key the table declares after the statements
RECURSIVE ApplyPk(_, _)
ApplyPk(pk, queries) ==
    IF queries = << >> THEN pk
    ELSE ApplyPk(CASE Head(queries).op = "drop primary key" -> {}
                   [] Head(queries).op = "add primary key"  -> Head(queries).columns
                   [] OTHER                                 -> pk,
                 Tail(queries))

\* the positions of the statements of kind op
StatementsOf(queries, op) == {k \in DOMAIN queries : queries[k].op = op}

\* C33: if the declared primary key differs from key_properties, the existing
\* key (if any) is dropped and then the new key (if any) is added, so that the
\* table declares key_properties; if they are equal, no primary key statement
\* is run; every column of the old or the new key gets a drop-not-null
C33_RefreshTablePks ==
    PksRefreshed
        => LET queries == call[1].result[1].value
               new == {Upper(call[1].key_properties[i]) : i \in DOMAIN call[1].key_properties}
               drops == StatementsOf(queries, "drop primary key")
               adds == StatementsOf(queries, "add primary key")
           IN  /\ IF DeclaredPks # new
                  THEN /\ Cardinality(drops) = (IF DeclaredPks # {} THEN 1 ELSE 0)
                       /\ Cardinality(adds) = (IF new # {} THEN 1 ELSE 0)
                       /\ \A d \in drops, a \in adds : d < a
                       /\ \A a \in adds : queries[a].columns = new
                  ELSE drops = {} /\ adds = {}
               /\ ApplyPk(DeclaredPks, queries) = new
               /\ \A c \in DeclaredPks \cup new :
                     \E k \in StatementsOf(queries, "drop not null") : queries[k].columns = {c}

C33_Witness ==
    /\ PksRefreshed
    /\ DeclaredPks = {"C_PK"}
    /\ call[1].key_properties = << "c_pk", "c_date" >>
    /\ Len(call[1].result[1].value) = 4

\* a metadata lookup has returned or raised
LookedUp ==
    /\ pc = "returned" /\ call # None
    /\ call[1].fn \in {"get_tables", "get_table_columns", "_get_current_pks"}

\* the error by which the warehouse tells the lookup that the object does not
\* exist: a ProgrammingError with the error code of the lookup's statement
ObjectNotFound(fn, answer) ==
    /\ answer.kind = "error"
    /\ answer.class = "ProgrammingError"
    /\ answer.code = (IF fn = "get_table_columns" THEN "002003" ELSE "002043")

\* what the lookup does on a list of answers
Lookup(fn, answers) ==
    CASE fn = "get_tables"        -> get_tables(answers)
      [] fn = "get_table_columns" -> get_table_columns(answers)
      [] OTHER                    -> IF answers = << >> THEN Returned({})
                                     ELSE get_current_pks(answers[1])

\* C34: a lookup whose answers hold no result over the cap behaves as if the
\* objects reported as not existing had not been asked for: it returns what
\* the other objects of the call give (nothing, when there is no other), and
\* it raises the first error of any other kind, unchanged
C34_ObjectNotFoundIsEmpty ==
    (LookedUp /\ \A i \in DOMAIN call[1].answers : call[1].answers[i].rowcount <= MaxRecords)
        => LET fn == call[1].fn
               answers == call[1].answers
               result == call[1].result[1]
               exists(a) == ~ObjectNotFound(fn, a)
               others == {i \in DOMAIN answers :
                             answers[i].kind = "error" /\ ~ObjectNotFound(fn, answers[i])}
           IN  /\ result = Lookup(fn, SelectSeq(answers, exists))
               /\ IF others = {}
                  THEN /\ ~result.raised
                       /\ (\A i \in DOMAIN answers : answers[i].kind = "error")
                              => result.value = (IF fn = "_get_current_pks" THEN {} ELSE << >>)
                  ELSE /\ result.raised
                       /\ result.error = answers[CHOOSE i \in others : \A j \in others : i <= j]

C34_Witness ==
    /\ LookedUp
    /\ call[1].fn = "get_table_columns"
    /\ Len(call[1].answers) = 2
    /\ call[1].answers[1].rowcount = 1
    /\ ObjectNotFound("get_table_columns", call[1].answers[2])
    /\ ~call[1].result[1].raised
    /\ Len(call[1].result[1].value) = 1

\* a catalog query has returned or raised
Queried ==
    /\ pc = "returned" /\ call # None
    /\ call[1].fn \in {"get_tables", "get_table_columns", "_get_current_pks", "show_schemas"}

\* the first answer that is a result of more than MaxRecords rows, when the
\* answers before it are results too
OverCap(answers) ==
    \E i \in DOMAIN answers :
        /\ answers[i].rowcount > MaxRecords
        /\ \A j \in 1..(i - 1) : answers[j].kind = "rows"

\* C35 as claimed: every catalog query (columns, tables, schemas, primary
\* keys) whose result has more rows than the cap raises the too-many-records
\* error
C35_EveryCatalogQueryCapped ==
    (Queried /\ OverCap(call[1].answers))
        => /\ call[1].result[1].raised
           /\ call[1].result[1].error = TooManyRecordsException

\* C35 as amended: the columns query raises the too-many-records error for a
\* result of more than 99999 rows and returns rows only when every result is
\* within the cap, all of them; the tables, schemas and primary key queries
\* have no cap and return a result of any size whole
C35_ColumnsQueryCapped ==
    Queried
        => LET fn == call[1].fn
               answers == call[1].answers
               result == call[1].result[1]
           IN  IF fn = "get_table_columns"
               THEN /\ OverCap(answers)
                        => result.raised /\ result.error = TooManyRecordsException
                    /\ ~result.raised
                        => /\ \A i \in DOMAIN answers : answers[i].rowcount <= MaxRecords
                           /\ \A i \in DOMAIN answers :
                                 answers[i].rowcount > 0
                                    => \E k \in DOMAIN result.value :
                                          result.value[k] = [schema |-> i,
                                                             rowcount |-> answers[i].rowcount]
               ELSE (\A i \in DOMAIN answers : answers[i].kind = "rows")
                        => /\ ~result.raised
                           /\ fn # "_get_current_pks"
                                 => result.value = answers[Len(answers)].rows

C35_Witness ==
    /\ Queried
    /\ call[1].fn = "get_table_columns"
    /\ Len(call[1].answers) = 2
    /\ call[1].answers[1].rowcount = 1
    /\ call[1].answers[2].rowcount = MaxRecords + 1
    /\ call[1].result[1].raised
    /\ call[1].result[1].error = TooManyRecordsException

\* the entries of a stream's bucket
BucketKeys(s) == IF s \in DOMAIN records_to_load THEN DOMAIN records_to_load[s] ELSE {}

\* C36: when persist_lines has finished a line (or the input), the row counter
\* of every stream that has had a SCHEMA is the number of entries of the
\* stream's bucket
C36_CounterIsBucketSize ==
    pc \in {"read", "done"}
        => \A s \in DOMAIN schemas :
              /\ s \in DOMAIN row_count
              /\ row_count[s] = Cardinality(BucketKeys(s))

C36_Witness ==
    /\ pc = "read"
    /\ last.op = "record"
    /\ last.round = "none"
    /\ last.stream \in DOMAIN last.pre.records_to_load
    /\ last.key \in DOMAIN last.pre.records_to_load[last.stream]
    /\ row_count[last.stream] = 2
    /\ Cardinality(BucketKeys(last.stream)) = 2

\* C37: with batch_size_rows >= 1, when persist_lines has finished a line (or
\* the input), every row counter is below batch_size_rows: the record that
\* takes a counter to the threshold flushes the stream within its own step
C37_CounterBelowBatchSize ==
    (pc \in {"read", "done"} /\ config.batch_size_rows >= 1)
        => /\ \A s \in DOMAIN row_count : row_count[s] < config.batch_size_rows
           /\ (last.op = "record" /\ last.round = "none")
                 => last.pre.row_count[last.stream] + 1 < config.batch_size_rows
                    \/ row_count[last.stream] = last.pre.row_count[last.stream]

C37_Witness ==
    /\ pc = "read"
    /\ last.op = "record"
    /\ last.round = "filtered"
    /\ last.pre.row_count[last.stream] = config.batch_size_rows - 1
    /\ row_count[last.stream] = 0
    /\ \E s \in DOMAIN row_count : s # last.stream /\ row_count[s] = 1

\* C38: a run that ends normally after at least one STATE line has emitted, as
\* its final checkpoint at end of input, the bookmarks of the last STATE line
C38_LastStateIsAcknowledged ==
    (pc = "done" /\ n_state >= 1)
        => /\ Emitted
           /\ Bookmarks(emitted[Len(emitted)]) = Bookmarks(state[1].d)

\* C39: two records of a stream whose tuples of primary key values differ get
\* different bucket key strings
C39_DistinctKeysDistinctStrings ==
    (pc = "returned" /\ call # None /\ call[1].fn = "record_primary_key_string")
        => LET key_properties == call[1].key_properties
               records == call[1].records
               keys == call[1].result[1]
           IN  key_props(key_properties, records[1]) # key_props(key_properties, records[2])
                  => keys[1] # keys[2]

\* load_via_snowpipe is running or has ended
Snowpipe == call # None /\ call[1].fn = "load_via_snowpipe"

\* the most attempts the retry loop may make: max_retry, the first attempt
\* in any case
AttemptsAllowed == IF max_retry(call[1].max_retry) > 1 THEN max_retry(call[1].max_retry) ELSE 1

\* C40: while every ingest_files call has failed, the retry loop is left after
\* at most max_retry attempts, by stopping the process, whatever max_retry is;
\* the polling loop and the pipe drop come only after a call that succeeded
C40_RetryLoopEnds ==
    Snowpipe
        => /\ (pc = "ingest" /\ ~call[1].ingested) => call[1].attempts < AttemptsAllowed
           /\ (pc \in {"raised", "exited"})
                 => ~call[1].ingested /\ call[1].attempts <= AttemptsAllowed /\ ~call[1].dropped
           /\ (pc \in {"history", "returned"}) => call[1].ingested
           /\ call[1].dropped => call[1].ingested

====
